---- MODULE Spec2Model ----
(***************************************************************************)
(* A model of the mentalHealth backend (src/backend): the three analysers  *)
(* (services/text_infer.py, audio_infer.py, image_infer.py), the late      *)
(* fusion (services/fusion.py), the user and session collections           *)
(* (models/user.py, models/session.py) and the HTTP handlers of app.py     *)
(* that use them.                                                          *)
(*                                                                         *)
(* Numbers.  A score the code returns is round(x, 3): it is modelled as an *)
(* integer number of thousandths.  A value the code has not rounded yet is *)
(* an exact fraction <<num, den>>.  Python floats are not exact fractions: *)
(* where the exact value lies half way between two thousandths the float   *)
(* may round either way, so Round3 takes the direction as an argument and  *)
(* every action that rounds draws it from BOOLEAN.                         *)
(***************************************************************************)
EXTENDS Integers, Sequences, FiniteSets, TLC

VARIABLES
    \* services/text_infer.py, services/audio_infer.py: module globals
    sentiment_model,        \* _sentiment_model: "None" | "fallback" | "loaded"
    audio_model,            \* _audio_model:     "None" | "fallback" | "loaded"
    LIBROSA_AVAILABLE,      \* set once by the imports at module load
    TRANSFORMERS_AVAILABLE,
    PYDUB_AVAILABLE,
    \* one call of an analyser or of the fusion, and what it returned
    call,
    ret,
    \* utils/database.py: the two collections
    users,
    sessions,
    \* requests being handled by app.py
    signups,
    reqs,
    \* services/llm_enhance.py: module globals
    llm_config,             \* ENABLE_LLM / GROQ_AVAILABLE / GROQ_API_KEY
    groq_client,            \* _groq_client: "None" | "client"
    \* /auth/login requests being handled by app.py
    logins,
    \* services/storage.py: the module global STORAGE, the day datetime.now()
    \* gives, and the last request served by an endpoint that uses STORAGE
    STORAGE,
    today,
    http,
    \* the reading of datetime.now() within the day, in microseconds, and the
    \* calls of store_analysis and purge_all_data so far
    clock,
    storage_calls,
    \* the module random: the generator (what it yields after each seed),
    \* its state, and the calls of the placeholder scorers so far
    generator,
    random_state,
    placeholder_log

analysisVars == <<sentiment_model, audio_model, LIBROSA_AVAILABLE,
                  TRANSFORMERS_AVAILABLE, PYDUB_AVAILABLE, call, ret>>
authVars     == <<users, signups, logins>>
sessionVars  == <<sessions, reqs, llm_config, groq_client>>
storeVars    == <<clock, storage_calls>>
storageVars  == <<STORAGE, today, http, storeVars>>
randomVars   == <<generator, random_state, placeholder_log>>
vars         == <<analysisVars, authVars, sessionVars, storageVars, randomVars>>

(***************************************************************************)
(* Bounds of the model.                                                    *)
(***************************************************************************)
MaxNeg      == 6     \* negative keywords in a text
MaxPos      == 2     \* positive keywords in a text
MaxWords    == 27    \* words in a text
ConfSteps   == 20    \* the model's confidence is k / ConfSteps
MaxEntries  == 2     \* analyses of one modality on one day

NoScore == -1        \* Python None where a number is expected

Max(a, b) == IF a >= b THEN a ELSE b
Min(a, b) == IF a <= b THEN a ELSE b
Abs(x)    == IF x < 0 THEN -x ELSE x

RECURSIVE SumSeq(_)
SumSeq(s) == IF s = <<>> THEN 0 ELSE Head(s) + SumSeq(Tail(s))

(***************************************************************************)
(* RoundInt: num / den rounded to an integer; Round3: round(num / den, 3)  *)
(* in thousandths.  num >= 0, den > 0.                                     *)
(***************************************************************************)
RoundInt(num, den, tieUp) ==
    LET q == num \div den
        r == num % den
    IN  IF 2 * r < den THEN q
        ELSE IF 2 * r > den THEN q + 1
        ELSE IF tieUp THEN q + 1 ELSE q

Round3(num, den, tieUp) == RoundInt(1000 * num, den, tieUp)

\* a score left as computed, neither floored at 0 nor capped at 1
Unclamped(x) == x

\* min(1.0, max(0.0, x)) on a fraction with den > 0
Clamp01(x) == <<Min(x[2], Max(0, x[1])), x[2]>>

(***************************************************************************)
(* The bucket thresholds: score < 0.33 Low, < 0.66 Moderate, else High.    *)
(* BucketOfFrac thresholds a value that has not been rounded, BucketOf a   *)
(* score in thousandths.                                                   *)
(***************************************************************************)
BucketOfFrac(x) ==
    IF 100 * x[1] < 33 * x[2] THEN "Low"
    ELSE IF 100 * x[1] < 66 * x[2] THEN "Moderate"
    ELSE "High"

BucketOf(score) ==
    IF score < 330 THEN "Low"
    ELSE IF score < 660 THEN "Moderate"
    ELSE "High"

(***************************************************************************)
(* services/text_infer.py                                                  *)
(*                                                                         *)
(* A text is what the scorers read of it: neg and pos are the numbers of   *)
(* words of re.findall(r'\b\w+\b', text.lower()) found in NEGATIVE_KEYWORDS*)
(* and in POSITIVE_KEYWORDS, words the number of words.                    *)
(***************************************************************************)
Texts ==
    { t \in [neg : 0..MaxNeg, pos : 0..MaxPos, words : 0..MaxWords] :
        t.neg + t.pos <= t.words }

ModelStates  == {"None", "fallback", "loaded"}
LoadOutcomes == {"ok", "raise"}

\* What model(text[:512])[0] does: it raises, or returns a label and the
\* confidence k / ConfSteps of that label.  The label is the most likely of
\* three, so its confidence is at least 1/3.
Labels == {"negative", "positive", "neutral"}
Inferences ==
    { [raises |-> TRUE, label |-> "neutral", conf |-> ConfSteps] }
    \cup { i \in [raises : {FALSE}, label : Labels, conf : 0..ConfSteps] :
             3 * i.conf >= ConfSteps }

\* a loader that forgets a failed load: the cache stays None
LoadRaisesKeepsNone(model, load) ==
    IF model = "None" /\ load = "ok" THEN "loaded" ELSE model

\* _load_models: the load is tried only while the cache is None; a load
\* that raises leaves "fallback" in the cache.
_load_models(model, load) ==
    IF model = "None"
    THEN IF load = "ok" THEN "loaded" ELSE "fallback"
    ELSE model

\* whether this call of _load_models runs pipeline(...)
LoadAttempted(model) == model = "None"

\* lines 190-208: the keyword score before rounding, as a fraction over
\* 100 * M where M = 10 * max(total_words * 0.1, 1) = max(len(words), 10)
KeywordScore(text) ==
    LET M     == Max(text.words, 10)
        B     == Max(0, Min(2 * M, 3 * text.neg) - text.pos)
        base  == IF text.neg = 0 /\ text.pos = 0 THEN 35 * M ELSE 50 * B
        base2 == IF text.words < 10 THEN (4 * base) \div 5 ELSE base
    IN  Clamp01(<<base2 + 20 * M, 100 * M>>)

_analyze_text_keyword_fallback(text, tieUp) ==
    LET score  == KeywordScore(text)
        bucket == BucketOfFrac(score)
    IN  [ score     |-> Round3(score[1], score[2], tieUp),
          bucket    |-> bucket,
          sentiment |-> CASE bucket = "Low"      -> "Positive/Neutral (keyword-based fallback)"
                          [] bucket = "Moderate" -> "Mixed/Concerning (keyword-based fallback)"
                          [] OTHER               -> "Negative/High Concern (keyword-based fallback)",
          negative_indicators |-> text.neg,
          positive_indicators |-> text.pos,
          text_length         |-> text.words ]

\* lines 94-99: base_score of the transformer path, over 10 * ConfSteps
ModelBaseScore(inf) ==
    CASE inf.label = "negative" -> <<5 * ConfSteps + 4 * inf.conf, 10 * ConfSteps>>
      [] inf.label = "positive" -> <<ConfSteps + 3 * (ConfSteps - inf.conf), 10 * ConfSteps>>
      [] OTHER                  -> <<3 * ConfSteps + 2 * inf.conf, 10 * ConfSteps>>

\* analyze_text after _load_models returned `model`
analyze_text(text, model, inf, tieUp) ==
    IF model = "fallback" THEN _analyze_text_keyword_fallback(text, tieUp)
    ELSE IF inf.raises THEN _analyze_text_keyword_fallback(text, tieUp)
    ELSE LET score == Clamp01(ModelBaseScore(inf))
         IN  [ score     |-> Round3(score[1], score[2], tieUp),
               bucket    |-> BucketOfFrac(score),
               sentiment |-> inf.label,
               negative_indicators |-> text.neg,
               positive_indicators |-> text.pos,
               text_length         |-> text.words ]

\* the sentiment strings only the keyword scorer returns (line 252)
KeywordSentiments ==
    { "Positive/Neutral (keyword-based fallback)",
      "Mixed/Concerning (keyword-based fallback)",
      "Negative/High Concern (keyword-based fallback)" }

(***************************************************************************)
(* The pseudo-random draws of the placeholder scorers: random.random()     *)
(* returns d / RandomDen for d in Draws (one draw is below the 0.05 of the *)
(* simulated face detection).  random() returns 0.0 with probability       *)
(* 2^-53, and never six times in a row: no draw is 0.                      *)
(***************************************************************************)
RandomDen == 21
Draws     == {1, 17}

RECURSIVE SumFn(_, _)
SumFn(f, S) ==
    IF S = {} THEN 0
    ELSE LET x == CHOOSE y \in S : TRUE IN f[x] + SumFn(f, S \ {x})

\* max(d.items(), key=lambda x: x[1])[0] and sorted(..., reverse=True)[0]:
\* the first key, in the order `order` of the dict, whose value is largest
FirstMax(order, f) ==
    LET i == CHOOSE j \in 1..Len(order) :
                 /\ \A k \in 1..Len(order) : f[order[k]] <= f[order[j]]
                 /\ \A k \in 1..(j - 1)    : f[order[k]] <  f[order[j]]
    IN  order[i]

SeqRange(s) == { s[i] : i \in 1..Len(s) }

(***************************************************************************)
(* services/audio_infer.py                                                 *)
(***************************************************************************)
EMOTIONS == <<"neutral", "happy", "sad", "angry", "fear", "surprise">>

\* EMOTION_STRESS_MAP, in hundredths
EMOTION_STRESS_MAP ==
    [ neutral |-> 30, happy |-> 10, sad |-> 70,
      angry |-> 80, fear |-> 85, surprise |-> 40 ]

\* The labels of the speech-emotion model, one of each class of lines
\* 218-223, in the order the model lists them; a probability is
\* k / AudioProbSteps and the probabilities sum to at most 1.
AudioProbSteps == 7
AudioLabels    == <<"sad", "happy", "neutral">>
AudioOutputs ==
    { o \in [SeqRange(AudioLabels) -> 0..AudioProbSteps] :
        SumFn(o, SeqRange(AudioLabels)) <= AudioProbSteps }

\* what sf.read / librosa.resample / model(audio) do: raise, return no
\* label at all, or return the labels with their probabilities
NoAudioOutput == [l \in SeqRange(AudioLabels) |-> 0]
AudioFailures ==
    { [raises |-> TRUE,  empty |-> FALSE, out |-> NoAudioOutput],
      [raises |-> FALSE, empty |-> TRUE,  out |-> NoAudioOutput] }
AudioInferences ==
    AudioFailures \cup [raises : {FALSE}, empty : {FALSE}, out : AudioOutputs]

\* lines 218-223, in hundredths
StressWeight(emotion) ==
    CASE emotion \in {"sad", "angry", "fear", "fearful"} -> 75
      [] emotion \in {"happy", "calm"}                   -> 15
      [] OTHER                                           -> 40

_load_audio_model(model, load) ==
    IF model = "None" /\ TRANSFORMERS_AVAILABLE
    THEN IF load = "ok" THEN "loaded" ELSE "fallback"
    ELSE model

AudioLoadAttempted(model) == model = "None" /\ TRANSFORMERS_AVAILABLE

\* _convert_webm_to_wav raises without pydub, and whenever the bytes are
\* empty, too short or not decodable by ffmpeg (convOk = FALSE)
ConversionRaises(convOk) == ~PYDUB_AVAILABLE \/ ~convOk

_analyze_audio_fallback(draws, tieUp) ==
    LET E       == SeqRange(EMOTIONS)
        idx(e)  == CHOOSE i \in 1..Len(EMOTIONS) : EMOTIONS[i] = e
        total   == SumFn([e \in E |-> draws[idx(e)]], E)
        first   == [e \in E |-> Round3(draws[idx(e)], RandomDen, tieUp)]
        prob    == [e \in E |-> Round3(first[e] * RandomDen, 1000 * total, tieUp)]
        dominant == FirstMax(EMOTIONS, prob)
        stress  == SumFn([e \in E |-> prob[e] * EMOTION_STRESS_MAP[e]], E)
        score   == Round3(6000 * EMOTION_STRESS_MAP[dominant] + 4 * stress,
                          1000000, tieUp)
    IN  [ raised |-> FALSE,
          score  |-> score,
          bucket |-> BucketOf(score),
          dominant_emotion |-> dominant,
          confidence       |-> prob[dominant],
          vocal_features   |-> "simulated",
          note   |-> "Placeholder analysis - install librosa for real features" ]

\* lines 204-225 and 231-272: the result of the model path
AudioModelResult(inf, featOk, tieUp) ==
    LET L      == SeqRange(AudioLabels)
        prob   == [l \in L |-> Round3(inf.out[l], AudioProbSteps, tieUp)]
        dominant == FirstMax(AudioLabels, prob)
        stress == SumFn([l \in L |-> prob[l] * StressWeight(l)], L)
        score  == LET c == Clamp01(<<stress, 100000>>)
                  IN  RoundInt(c[1], 100, tieUp)
    IN  [ raised |-> FALSE,
          score  |-> score,
          bucket |-> BucketOf(score),
          dominant_emotion |-> dominant,
          confidence       |-> prob[dominant],
          vocal_features   |-> IF featOk THEN "extracted"
                               ELSE "Feature extraction failed",
          note   |-> "Wav2Vec2 (pre-trained)" ]

\* the exception a caller of analyze_audio would see
AudioRaised ==
    [ raised |-> TRUE, score |-> NoScore, bucket |-> "", dominant_emotion |-> "",
      confidence |-> NoScore, vocal_features |-> "", note |-> "" ]

\* analyze_audio with the try/except of lines 189-229 left out
analyze_audio_uncaught(webm, convOk, model, inf, featOk, draws, tieUp) ==
    IF ~LIBROSA_AVAILABLE \/ ~TRANSFORMERS_AVAILABLE
    THEN _analyze_audio_fallback(draws, tieUp)
    ELSE IF webm /\ ConversionRaises(convOk)
    THEN _analyze_audio_fallback(draws, tieUp)
    ELSE IF model = "fallback" \/ model = "None"
    THEN _analyze_audio_fallback(draws, tieUp)
    ELSE IF inf.raises \/ inf.empty
    THEN AudioRaised
    ELSE AudioModelResult(inf, featOk, tieUp)

\* analyze_audio after _load_audio_model returned `model` (it is called
\* only when line 185 is reached)
analyze_audio(webm, convOk, model, inf, featOk, draws, tieUp) ==
    IF ~LIBROSA_AVAILABLE \/ ~TRANSFORMERS_AVAILABLE
    THEN _analyze_audio_fallback(draws, tieUp)
    ELSE IF webm /\ ConversionRaises(convOk)
    THEN _analyze_audio_fallback(draws, tieUp)
    ELSE IF model = "fallback" \/ model = "None"
    THEN _analyze_audio_fallback(draws, tieUp)
    ELSE IF inf.raises \/ inf.empty       \* max() of no label raises ValueError
    THEN _analyze_audio_fallback(draws, tieUp)
    ELSE AudioModelResult(inf, featOk, tieUp)

\* whether analyze_audio reaches _load_audio_model (line 185)
AudioReachesLoad(webm, convOk) ==
    /\ LIBROSA_AVAILABLE /\ TRANSFORMERS_AVAILABLE
    /\ ~(webm /\ ConversionRaises(convOk))

(***************************************************************************)
(* services/image_infer.py                                                 *)
(***************************************************************************)
FACIAL_EMOTIONS ==
    <<"angry", "disgust", "fear", "happy", "sad", "surprise", "neutral">>

\* FACIAL_STRESS_MAP, in hundredths
FACIAL_STRESS_MAP ==
    [ angry |-> 75, disgust |-> 65, fear |-> 85, happy |-> 15,
      sad |-> 70, surprise |-> 40, neutral |-> 35 ]

\* draws[1] decides the face detection, draws[2..8] are the emotions
analyze_image(draws, tieUp) ==
    IF ~(20 * draws[1] > RandomDen)       \* random.random() > 0.05
    THEN [ score |-> 500, bucket |-> "Moderate", dominant_emotion |-> "neutral",
           face_detected |-> FALSE, confidence |-> 0 ]
    ELSE LET E      == SeqRange(FACIAL_EMOTIONS)
             idx(e) == CHOOSE i \in 1..Len(FACIAL_EMOTIONS) : FACIAL_EMOTIONS[i] = e
             total  == SumFn([e \in E |-> draws[idx(e) + 1]], E)
             prob   == [e \in E |-> Round3(draws[idx(e) + 1], total, tieUp)]
             dominant == FirstMax(FACIAL_EMOTIONS, prob)
             stress == SumFn([e \in E |-> prob[e] * FACIAL_STRESS_MAP[e]], E)
             score  == Round3(stress, 100000, tieUp)
         IN  [ score |-> score, bucket |-> BucketOf(score),
               dominant_emotion |-> dominant,
               face_detected |-> TRUE, confidence |-> prob[dominant] ]

(***************************************************************************)
(* services/fusion.py                                                      *)
(*                                                                         *)
(* An analysis, as get_daily_entries hands it to the fusion, is what the   *)
(* fusion reads of it: its "score" (NoScore when the dict has no such key, *)
(* as the dicts stored by the /enhanced endpoints) and whether it has an   *)
(* "explain" key.                                                          *)
(***************************************************************************)
EntryScores == {105, 900}
Entries ==
    [score : EntryScores, explain : {TRUE}]
    \cup { [score |-> NoScore, explain |-> FALSE] }

EntryLists == UNION { [1..n -> Entries] : n \in 0..MaxEntries }

\* DEFAULT_WEIGHTS, in hundredths
DEFAULT_WEIGHTS == [text |-> 50, audio |-> 25, image |-> 25]

Modalities == {"text", "audio", "image"}

\* sum of a.get("score", 0.5) over the analyses, in thousandths
ScoreSum(analyses) ==
    SumSeq([i \in 1..Len(analyses) |->
              IF analyses[i].score = NoScore THEN 500 ELSE analyses[i].score])

\* _average_scores: None (NoScore) for no analysis, else sum / len
_average_scores(analyses) ==
    IF Len(analyses) = 0 THEN <<NoScore, 1>>
    ELSE <<ScoreSum(analyses), Len(analyses)>>

FusionRaised ==
    [ raised |-> TRUE, no_data |-> FALSE, final_score |-> NoScore, bucket |-> "",
      modality_scores |-> [m \in Modalities |-> NoScore] ]

_no_data_response ==
    [ raised |-> FALSE, no_data |-> TRUE, final_score |-> 500, bucket |-> "Moderate",
      modality_scores |-> [m \in Modalities |-> NoScore] ]

\* _generate_explanation, line 167: a["explain"] raises KeyError on an
\* audio analysis that has no "explain" key
ExplanationRaises(audio_analyses) ==
    \E i \in 1..Len(audio_analyses) : ~audio_analyses[i].explain

\* lines 50-57: the weight of each modality that has a score, 0 for the
\* others
ActiveWeights(avg, weights) ==
    [m \in Modalities |-> IF avg[m][1] = NoScore THEN 0 ELSE weights[m]]

TotalWeight(active) == active.text + active.audio + active.image

\* sum over the modalities of average * weight / den, as one fraction
FusionSum(avg, active, den) ==
    LET n(m)   == avg[m][2]
        s(m)   == IF avg[m][1] = NoScore THEN 0 ELSE avg[m][1]
    IN  << s("text")  * active.text  * n("audio") * n("image")
         + s("audio") * active.audio * n("text")  * n("image")
         + s("image") * active.image * n("text")  * n("audio"),
           den * n("text") * n("audio") * n("image") >>

\* the fusion with the weights as given (they sum to 1.00), not renormalised
WeightedFusionRaw(avg, active, total) == FusionSum(avg, active, 100)

\* lines 59-74: each active weight is divided by total_weight, then
\* final_score is the sum of score * weight
WeightedFusion(avg, active, total) == FusionSum(avg, active, total)

aggregate_daily_scores(text_analyses, audio_analyses, image_analyses, weights, tieUp) ==
    LET avg    == [ text  |-> _average_scores(text_analyses),
                    audio |-> _average_scores(audio_analyses),
                    image |-> _average_scores(image_analyses) ]
        active == ActiveWeights(avg, weights)
        total  == TotalWeight(active)
    IN  IF ~(total > 0) THEN _no_data_response
        ELSE IF ExplanationRaises(audio_analyses) THEN FusionRaised
        ELSE LET f     == WeightedFusion(avg, active, total)
                 final == RoundInt(f[1], f[2], tieUp)
             IN  [ raised |-> FALSE, no_data |-> FALSE,
                   final_score |-> final,
                   bucket |-> BucketOf(final),
                   modality_scores |->
                       [m \in Modalities |->
                          IF avg[m][1] = NoScore THEN NoScore
                          ELSE RoundInt(avg[m][1], avg[m][2], tieUp)] ]

\* the themes analyze_text puts in explain["dominant_themes"] that
\* _generate_suggestions reads
Themes == {"sleep_issues", "anxiety", "low_mood", "isolation"}

CrisisSuggestion ==
    "If you're in crisis, please contact: National Suicide Prevention Lifeline 988 (US)"

NoDataSuggestions == <<"Please log your daily text, audio, or image entries.">>

SuggestIf(cond, suggestions) == IF cond THEN suggestions ELSE <<>>

\* _generate_suggestions (lines 186-242); themes is the union of the
\* dominant_themes of the text analyses
_generate_suggestions(final_score, bucket, themes) ==
    LET suggestions ==
              SuggestIf("sleep_issues" \in themes,
                  << "Consider establishing a regular sleep schedule and bedtime routine.",
                     "Try limiting screen time 1 hour before bed." >>)
           \o SuggestIf("anxiety" \in themes \/ final_score > 600,
                  << "Practice deep breathing exercises (4-7-8 technique).",
                     "Consider mindfulness or meditation apps (Headspace, Calm)." >>)
           \o SuggestIf("low_mood" \in themes \/ bucket = "High",
                  << "Engage in physical activity - even a 10-minute walk can help.",
                     "Connect with friends or loved ones." >>)
           \o SuggestIf("isolation" \in themes,
                  << "Reach out to someone you trust to talk or spend time together.",
                     "Join a community group or online forum with shared interests." >>)
           \o SuggestIf(bucket = "Moderate" \/ bucket = "High",
                  << "Maintain a balanced diet and stay hydrated.",
                     "Journal your thoughts and feelings daily." >>)
           \o SuggestIf(final_score > 750,
                  << CrisisSuggestion,
                     "Consider speaking with a mental health professional." >>)
           \o SuggestIf(bucket = "Low",
                  << "Keep up the positive habits! Continue monitoring your wellbeing.",
                     "Practice gratitude by noting 3 things you're thankful for today." >>)
    IN  IF suggestions = <<>>
        THEN << "Continue monitoring your mental health daily.",
                "Maintain healthy sleep, exercise, and social connection habits." >>
        ELSE SubSeq(suggestions, 1, Min(5, Len(suggestions)))

\* the "suggestions" of a result of aggregate_daily_scores
SuggestionsOf(r, themes) ==
    IF r.raised THEN <<>>
    ELSE IF r.no_data THEN NoDataSuggestions
    ELSE _generate_suggestions(r.final_score, r.bucket, themes)

(***************************************************************************)
(* services/llm_enhance.py                                                 *)
(*                                                                         *)
(* llm_config is what the import of the module leaves: ENABLE_LLM,         *)
(* GROQ_AVAILABLE and whether GROQ_API_KEY is non-empty.  groq_client is   *)
(* the cached _groq_client.                                                *)
(***************************************************************************)
LLMReady    == [ENABLE_LLM |-> TRUE,  GROQ_AVAILABLE |-> TRUE,  GROQ_API_KEY |-> TRUE]
LLMDisabled == [ENABLE_LLM |-> FALSE, GROQ_AVAILABLE |-> TRUE,  GROQ_API_KEY |-> TRUE]
LLMNoLib    == [ENABLE_LLM |-> TRUE,  GROQ_AVAILABLE |-> FALSE, GROQ_API_KEY |-> TRUE]
LLMNoKey    == [ENABLE_LLM |-> TRUE,  GROQ_AVAILABLE |-> TRUE,  GROQ_API_KEY |-> FALSE]
LLMConfigs  == {LLMReady, LLMDisabled, LLMNoLib, LLMNoKey}

\* _get_groq_client: the cache it leaves and the client it returns; init is
\* what Groq(api_key=...) (and groq.Client after a TypeError) does
_get_groq_client(config, client, init) ==
    IF ~config.ENABLE_LLM THEN [cache |-> client, client |-> "None"]
    ELSE IF client = "None" /\ config.GROQ_AVAILABLE
    THEN IF ~config.GROQ_API_KEY THEN [cache |-> client, client |-> "None"]
         ELSE IF init = "ok" THEN [cache |-> "client", client |-> "client"]
         ELSE [cache |-> client, client |-> "None"]
    ELSE [cache |-> client, client |-> client]

\* llm_feedback: {} is EmptyFeedback; of the keys the LLM's answer fills,
\* the level (risk_level for a text, concern_level for audio and image)
EmptyFeedback == [filled |-> FALSE, level |-> ""]

\* what client.chat.completions.create and json.loads do: raise, or give a
\* JSON object with a level, or one without ("")
LLMReplies ==
    { [raises |-> TRUE, level |-> ""] }
      \cup [raises : {FALSE}, level : {"", "High"}]

\* the three returns of an enhance_* function: has_llm_feedback tells whether
\* the dict has an "llm_feedback" key, outcome which return it is, missing
\* what llm_output.get gives where the LLM's answer has no level
Enhanced(client, missing, reply) ==
    IF client = "None"
    THEN [enhanced |-> FALSE, has_llm_feedback |-> FALSE,
          llm_feedback |-> EmptyFeedback, outcome |-> "unavailable"]
    ELSE IF reply.raises
    THEN [enhanced |-> FALSE, has_llm_feedback |-> FALSE,
          llm_feedback |-> EmptyFeedback, outcome |-> "raised"]
    ELSE [enhanced |-> TRUE, has_llm_feedback |-> TRUE,
          llm_feedback |->
            [filled |-> TRUE,
             level |-> IF reply.level = "" THEN missing ELSE reply.level],
          outcome |-> "ok"]

\* llm_output.get('risk_level', bucket)
enhance_text_analysis(client, model_result, reply) ==
    Enhanced(client, model_result.bucket, reply)

\* llm_output.get('concern_level', '')
enhance_audio_analysis(client, audio_result, reply) == Enhanced(client, "", reply)
enhance_image_analysis(client, image_result, reply) == Enhanced(client, "", reply)

(***************************************************************************)
(* services/storage.py                                                     *)
(*                                                                         *)
(* A date is a day number: strftime("%Y-%m-%d") of a date and the first    *)
(* ten characters of an isoformat timestamp are equal exactly when the     *)
(* days are.  STORAGE is a function from the names of its lists to         *)
(* sequences of entries.  The data of an entry is what the readers of      *)
(* STORAGE read of the dict: "score" and "model_result"["score"] (NoScore  *)
(* where the dict has no such key), whether it has an "explain" key,       *)
(* "timestamp", and "date", "final_score", "bucket" of a daily aggregate.  *)
(***************************************************************************)
MaxDay    == 1       \* datetime.now().date() is in 0..MaxDay
MaxStored == 2       \* entries held by STORAGE

Days == 0..MaxDay

NoTimestamp == -1000 \* no "timestamp" key, or request.timestamp is None
NoDate      == -2000 \* no "date" key

StorageLists == {"text", "audio", "image", "daily_aggregate"}
EmptyStorage == [m \in StorageLists |-> <<>>]

\* the dict an /analyze/<modality> endpoint stores
AnalysisData(result, timestamp) ==
    [ score |-> result.score, explain |-> TRUE, model_result |-> NoScore,
      timestamp |-> timestamp,
      date |-> NoDate, final_score |-> NoScore, bucket |-> result.bucket ]

\* the dict an /analyze/<modality>/enhanced endpoint stores: the result of
\* the analyser is under "model_result"
EnhancedData(model_result, timestamp) ==
    [ score |-> NoScore, explain |-> FALSE, model_result |-> model_result.score,
      timestamp |-> timestamp,
      date |-> NoDate, final_score |-> NoScore, bucket |-> "" ]

\* the dict /aggregate/day stores
AggregateData(date, result) ==
    [ score |-> NoScore, explain |-> FALSE, model_result |-> NoScore,
      timestamp |-> NoTimestamp,
      date |-> date, final_score |-> result.final_score, bucket |-> result.bucket ]

\* the dict /aggregate/day/enhanced stores: the fusion is under
\* "fusion_result"
EnhancedAggregateData(date, result) ==
    [ score |-> NoScore, explain |-> FALSE, model_result |-> NoScore,
      timestamp |-> NoTimestamp,
      date |-> date, final_score |-> NoScore, bucket |-> "" ]

\* line 40: the modality and the reading of datetime.now(), to the
\* microsecond; the format has a fixed width, so two ids are equal exactly
\* when the modality, the day and the reading are
analysis_id(modality, day, reading) == <<modality, day, reading>>

\* a store that keeps only the lists STORAGE already has
store_known_modality(storage, modality, data, now) ==
    [ m \in DOMAIN storage |->
        IF m = modality
        THEN Append(storage[m],
                    [ modality  |-> modality,
                      timestamp |-> IF data.timestamp = NoTimestamp THEN now
                                    ELSE data.timestamp,
                      data      |-> data ])
        ELSE storage[m] ]

\* store_analysis: data.get("timestamp", datetime.now().isoformat()).  The
\* "id" of the entry is what analysis_id gives; nothing reads it from STORAGE
\* (USE_FILE_STORAGE is False), it is what the call returns
store_analysis(storage, modality, data, now) ==
    LET entry == [ modality  |-> modality,
                   timestamp |-> IF data.timestamp = NoTimestamp THEN now
                                 ELSE data.timestamp,
                   data      |-> data ]
    IN  [ m \in DOMAIN storage \cup {modality} |->
            IF m = modality
            THEN IF m \in DOMAIN storage THEN Append(storage[m], entry)
                 ELSE <<entry>>
            ELSE storage[m] ]

\* STORAGE.get(name, [])
StorageGet(storage, name) ==
    IF name \in DOMAIN storage THEN storage[name] ELSE <<>>

RECURSIVE DataOn(_, _)
DataOn(entries, date) ==
    IF entries = <<>> THEN <<>>
    ELSE IF Head(entries).timestamp = date
         THEN <<Head(entries).data>> \o DataOn(Tail(entries), date)
         ELSE DataOn(Tail(entries), date)

\* get_daily_entries
get_daily_entries(storage, date_str) ==
    [m \in Modalities |-> DataOn(StorageGet(storage, m), date_str)]

RECURSIVE TotalEntries(_, _)
TotalEntries(storage, names) ==
    IF names = {} THEN 0
    ELSE LET m == CHOOSE x \in names : TRUE
         IN  Len(storage[m]) + TotalEntries(storage, names \ {m})

\* a purge that empties the four lists STORAGE starts with
purge_initial_lists(storage) ==
    [ total_deleted |-> TotalEntries(storage, DOMAIN storage \cap StorageLists),
      storage |-> [m \in DOMAIN storage |->
                     IF m \in StorageLists THEN <<>> ELSE storage[m]] ]

\* purge_all_data: what it returns and what it leaves in STORAGE
purge_all_data(storage) ==
    [ total_deleted |-> TotalEntries(storage, DOMAIN storage),
      storage |-> [m \in DOMAIN storage |-> <<>>] ]

\* get_stats: total_entries and by_modality
get_stats(storage) ==
    [ total_entries |-> TotalEntries(storage, DOMAIN storage),
      by_modality   |-> [m \in DOMAIN storage |-> Len(storage[m])] ]

\* a trend whose first day is one day early
TrendDatesFromDaysAgo(now, days) ==
    LET end_date   == now
        start_date == end_date - days
    IN  [i \in 1..Max(0, end_date - start_date + 1) |-> start_date + (i - 1)]

\* lines 105-115 and 144 of get_trend_data: the dates the loop visits, from
\* start_date while current_date <= end_date
TrendDates(now, days) ==
    LET end_date   == now
        start_date == end_date - (days - 1)
    IN  [i \in 1..Max(0, end_date - start_date + 1) |-> start_date + (i - 1)]

\* the data of the last daily aggregate stored for the date
RECURSIVE LastAggregate(_, _)
LastAggregate(entries, date_str) ==
    IF entries = <<>> THEN <<>>
    ELSE IF entries[Len(entries)].data.date = date_str
         THEN <<entries[Len(entries)].data>>
    ELSE LastAggregate(SubSeq(entries, 1, Len(entries) - 1), date_str)

\* lines 118-122: the data of the first daily aggregate stored for the date,
\* as a sequence of length 0 or 1
RECURSIVE FirstAggregate(_, _)
FirstAggregate(entries, date_str) ==
    IF entries = <<>> THEN <<>>
    ELSE IF Head(entries).data.date = date_str THEN <<Head(entries).data>>
    ELSE FirstAggregate(Tail(entries), date_str)

\* lines 124-142: the score and the bucket of one date
TrendPoint(storage, date_str, tieUp) ==
    LET daily_agg  == FirstAggregate(StorageGet(storage, "daily_aggregate"), date_str)
        daily_data == get_daily_entries(storage, date_str)
    IN  IF daily_agg # <<>>
        THEN [raised |-> FALSE, score |-> daily_agg[1].final_score,
              bucket |-> daily_agg[1].bucket]
        ELSE IF \E m \in Modalities : daily_data[m] # <<>>
        THEN LET result == aggregate_daily_scores(daily_data.text, daily_data.audio,
                                                  daily_data.image, DEFAULT_WEIGHTS, tieUp)
             IN  [raised |-> result.raised, score |-> result.final_score,
                  bucket |-> result.bucket]
        ELSE [raised |-> FALSE, score |-> NoScore, bucket |-> "No Data"]

TrendRaised == [raised |-> TRUE, dates |-> <<>>, scores |-> <<>>, buckets |-> <<>>]

\* get_trend_data: it raises what aggregate_daily_scores raises
get_trend_data(storage, now, days, tieUp) ==
    LET dates  == TrendDates(now, days)
        points == [i \in DOMAIN dates |-> TrendPoint(storage, dates[i], tieUp)]
    IN  IF \E i \in DOMAIN dates : points[i].raised THEN TrendRaised
        ELSE [ raised  |-> FALSE,
               dates   |-> dates,
               scores  |-> [i \in DOMAIN dates |-> points[i].score],
               buckets |-> [i \in DOMAIN dates |-> points[i].bucket] ]

(***************************************************************************)
(* SpecFn: one call of an analyser or of the fusion.  Init draws the       *)
(* arguments and the module state the call finds; the action applies the   *)
(* function, drawing what the libraries it calls do.                       *)
(***************************************************************************)
NoText == [neg |-> 0, pos |-> 0, words |-> 0]
NoRet  == [fn |-> "none"]
Idle   == [fn |-> "none", text |-> NoText, webm |-> FALSE,
           texts |-> <<>>, audios |-> <<>>, images |-> <<>>,
           weights |-> DEFAULT_WEIGHTS, themes |-> {}]

TextCalls   == { [Idle EXCEPT !.fn = "analyze_text", !.text = t] : t \in Texts }
AudioCalls  == { [Idle EXCEPT !.fn = "analyze_audio", !.webm = w] : w \in BOOLEAN }
ImageCalls  == { [Idle EXCEPT !.fn = "analyze_image"] }
FusionCalls == { [Idle EXCEPT !.fn = "aggregate_daily_scores",
                              !.texts = t, !.audios = a, !.images = i] :
                   t \in EntryLists, a \in EntryLists, i \in EntryLists }

\* aggregate_daily_scores on a day whose one text analysis names themes
ExplainedLists == {<<>>} \cup { <<e>> : e \in { x \in Entries : x.explain } }
ThemedCalls ==
    { [Idle EXCEPT !.fn = "aggregate_daily_scores",
                   !.texts = t, !.audios = a, !.images = i, !.themes = th] :
        t \in ExplainedLists \ {<<>>}, a \in ExplainedLists, i \in ExplainedLists,
        th \in (SUBSET Themes) \ {{}} }

\* aggregate_daily_scores called with a weights argument: any weights that
\* are not negative, on lists of at most one analysis, whose score may lie
\* outside [0, 1]
CustomWeights   == [Modalities -> {0, 1, 3}]
OutOfRangeEntry == [score |-> 1500, explain |-> TRUE]
ShortEntryLists ==
    {<<>>} \cup { <<e>> : e \in Entries \cup {OutOfRangeEntry} }
WeightedCalls ==
    { [Idle EXCEPT !.fn = "aggregate_daily_scores_weights",
                   !.texts = t, !.audios = a, !.images = i, !.weights = w] :
        t \in ShortEntryLists, a \in ShortEntryLists, i \in ShortEntryLists,
        w \in CustomWeights }

AuthIdle    == /\ users = {} /\ signups = <<>> /\ logins = <<>>
SessionIdle == /\ sessions = {} /\ reqs = <<>>
               /\ llm_config = LLMDisabled /\ groq_client = "None"

\* no request served by an endpoint that uses STORAGE
NoInput == [filename |-> "", size |-> 0, date |-> NoDate,
            timestamp |-> NoTimestamp, days |-> 0]
NoHttp  == [endpoint |-> "none", input |-> NoInput, analysed |-> FALSE,
            status |-> 0, detail |-> "", body |-> <<>>]
StorageIdle == /\ STORAGE = EmptyStorage /\ today = 0 /\ http = NoHttp
               /\ clock = 0 /\ storage_calls = <<>>

\* random as its import leaves it, and no placeholder called
RandomIdle == /\ generator = <<>>
              /\ random_state = [seed |-> 0, pos |-> 0] /\ placeholder_log = <<>>

\* the flags the imports of audio_infer.py leave; _audio_model is set only
\* where transformers was imported
AudioModuleStates ==
    /\ LIBROSA_AVAILABLE \in BOOLEAN
    /\ TRANSFORMERS_AVAILABLE \in BOOLEAN
    /\ PYDUB_AVAILABLE \in BOOLEAN
    /\ audio_model \in IF TRANSFORMERS_AVAILABLE THEN ModelStates ELSE {"None"}

AudioModuleFresh ==
    /\ LIBROSA_AVAILABLE = TRUE /\ TRANSFORMERS_AVAILABLE = TRUE
    /\ PYDUB_AVAILABLE = TRUE /\ audio_model = "None"

InitFn ==
    /\ AuthIdle /\ SessionIdle /\ StorageIdle /\ RandomIdle
    /\ ret = NoRet
    /\ \/ call \in TextCalls /\ sentiment_model \in ModelStates /\ AudioModuleFresh
       \/ call \in AudioCalls /\ sentiment_model = "None" /\ AudioModuleStates
       \/ call \in ImageCalls /\ sentiment_model = "None" /\ AudioModuleFresh
       \/ call \in FusionCalls /\ sentiment_model = "None" /\ AudioModuleFresh
       \/ call \in ThemedCalls /\ sentiment_model = "None" /\ AudioModuleFresh
       \/ call \in WeightedCalls /\ sentiment_model = "None" /\ AudioModuleFresh

CallAnalyzeText ==
    /\ call.fn = "analyze_text" /\ ret = NoRet
    /\ \E load \in LoadOutcomes, inf \in Inferences, tieUp \in BOOLEAN :
         /\ sentiment_model' = _load_models(sentiment_model, load)
         /\ ret' = [ fn |-> "analyze_text",
                     load_attempted |-> LoadAttempted(sentiment_model),
                     load_raised |-> LoadAttempted(sentiment_model) /\ load = "raise",
                     inference_raised |-> sentiment_model' = "loaded" /\ inf.raises,
                     r  |-> analyze_text(call.text, sentiment_model', inf, tieUp) ]
    /\ UNCHANGED <<audio_model, LIBROSA_AVAILABLE, TRANSFORMERS_AVAILABLE,
                   PYDUB_AVAILABLE, call, authVars, sessionVars, storageVars, randomVars>>

NoDraws == [i \in 1..6 |-> 1]

\* The draws are read by the placeholder only, the labels of the model by
\* the model path only: each is drawn where the call reads it.
CallAnalyzeAudio ==
    /\ call.fn = "analyze_audio" /\ ret = NoRet
    /\ \E convOk \in BOOLEAN, load \in LoadOutcomes, tieUp \in BOOLEAN :
         LET reaches == AudioReachesLoad(call.webm, convOk)
             model   == IF reaches THEN _load_audio_model(audio_model, load)
                        ELSE audio_model
             head    == [ fn |-> "analyze_audio",
                          load_attempted |-> reaches /\ AudioLoadAttempted(audio_model),
                          load_raised |-> reaches /\ AudioLoadAttempted(audio_model)
                                          /\ load = "raise",
                          conv_failed |-> /\ LIBROSA_AVAILABLE /\ TRANSFORMERS_AVAILABLE
                                          /\ call.webm /\ ConversionRaises(convOk),
                          inference_raised |-> FALSE ]
         IN  /\ audio_model' = model
             /\ \/ /\ reaches /\ model = "loaded"
                   /\ \E out \in AudioOutputs, featOk \in BOOLEAN :
                        ret' = head @@
                          [r |-> analyze_audio(call.webm, convOk, model,
                                   [raises |-> FALSE, empty |-> FALSE, out |-> out],
                                   featOk, NoDraws, tieUp)]
                \/ /\ reaches /\ model = "loaded"
                   /\ \E inf \in AudioFailures, draws \in [1..6 -> Draws] :
                        ret' = [head EXCEPT !.inference_raised = TRUE] @@
                          [r |-> analyze_audio(call.webm, convOk, model, inf,
                                               TRUE, draws, tieUp)]
                \/ /\ ~(reaches /\ model = "loaded")
                   /\ \E draws \in [1..6 -> Draws] :
                        ret' = head @@
                          [r |-> analyze_audio(call.webm, convOk, model,
                                   [raises |-> FALSE, empty |-> FALSE,
                                    out |-> NoAudioOutput],
                                   TRUE, draws, tieUp)]
    /\ UNCHANGED <<sentiment_model, LIBROSA_AVAILABLE, TRANSFORMERS_AVAILABLE,
                   PYDUB_AVAILABLE, call, authVars, sessionVars, storageVars, randomVars>>

CallAnalyzeImage ==
    /\ call.fn = "analyze_image" /\ ret = NoRet
    /\ \E draws \in [1..8 -> Draws], tieUp \in BOOLEAN :
         ret' = [fn |-> "analyze_image", r |-> analyze_image(draws, tieUp)]
    /\ UNCHANGED <<sentiment_model, audio_model, LIBROSA_AVAILABLE,
                   TRANSFORMERS_AVAILABLE, PYDUB_AVAILABLE, call,
                   authVars, sessionVars, storageVars, randomVars>>

CallAggregateDailyScores ==
    /\ call.fn = "aggregate_daily_scores" /\ ret = NoRet
    /\ \E tieUp \in BOOLEAN :
         LET r == aggregate_daily_scores(call.texts, call.audios, call.images,
                                         DEFAULT_WEIGHTS, tieUp)
         IN  ret' = [ fn |-> "aggregate_daily_scores", r |-> r,
                      suggestions |-> SuggestionsOf(r, call.themes) ]
    /\ UNCHANGED <<sentiment_model, audio_model, LIBROSA_AVAILABLE,
                   TRANSFORMERS_AVAILABLE, PYDUB_AVAILABLE, call,
                   authVars, sessionVars, storageVars, randomVars>>

CallAggregateWithWeights ==
    /\ call.fn = "aggregate_daily_scores_weights" /\ ret = NoRet
    /\ \E tieUp \in BOOLEAN :
         LET r == aggregate_daily_scores(call.texts, call.audios, call.images,
                                         call.weights, tieUp)
         IN  ret' = [ fn |-> "aggregate_daily_scores_weights", r |-> r,
                      suggestions |-> SuggestionsOf(r, call.themes) ]
    /\ UNCHANGED <<sentiment_model, audio_model, LIBROSA_AVAILABLE,
                   TRANSFORMERS_AVAILABLE, PYDUB_AVAILABLE, call,
                   authVars, sessionVars, storageVars, randomVars>>

NextFn ==
    \/ CallAnalyzeText
    \/ CallAnalyzeAudio
    \/ CallAnalyzeImage
    \/ CallAggregateDailyScores
    \/ CallAggregateWithWeights

SpecFn == InitFn /\ [][NextFn]_vars

(***************************************************************************)
(* SpecModels: analyze_text and analyze_audio called again and again in    *)
(* one process, from the freshly imported modules (both caches None).      *)
(***************************************************************************)
RepeatCalls ==
    { c \in TextCalls : c.text \in { [neg |-> 0, pos |-> 0, words |-> 4],
                                     [neg |-> 2, pos |-> 1, words |-> 12] } }
    \cup AudioCalls

InitModels ==
    /\ AuthIdle /\ SessionIdle /\ StorageIdle /\ RandomIdle
    /\ sentiment_model = "None"
    /\ LIBROSA_AVAILABLE \in BOOLEAN
    /\ TRANSFORMERS_AVAILABLE \in BOOLEAN
    /\ PYDUB_AVAILABLE \in BOOLEAN
    /\ audio_model = "None"
    /\ call \in RepeatCalls
    /\ ret = NoRet

\* the caller takes the result and calls again
NextCall ==
    /\ ret # NoRet
    /\ call' \in RepeatCalls
    /\ ret' = NoRet
    /\ UNCHANGED <<sentiment_model, audio_model, LIBROSA_AVAILABLE,
                   TRANSFORMERS_AVAILABLE, PYDUB_AVAILABLE, authVars, sessionVars, storageVars, randomVars>>

NextModels ==
    \/ CallAnalyzeText
    \/ CallAnalyzeAudio
    \/ NextCall

SpecModels == InitModels /\ [][NextModels]_vars

(***************************************************************************)
(* models/user.py, utils/database.py, app.py: /auth/signup.                *)
(*                                                                         *)
(* The users collection is a set of documents; create_indexes gives it a   *)
(* unique index on username and one on email before the first request is   *)
(* served.  A signup request is a slot of signups; its handler runs from   *)
(* one await to the next, and the database executes one operation at a     *)
(* time, so each step below is the code up to and including one database   *)
(* operation.                                                              *)
(***************************************************************************)
MaxSignups == 2      \* signup requests in one behaviour

Usernames == {"al", "alice", "bob"}
Emails    == {"alice@x.io", "bob@x.io", "alice.x.io"}
Passwords == {"12345", "123456"}

\* "@" in email
HasAt(email) == email \in {"alice@x.io", "bob@x.io"}

NoToken == [sub |-> "", user_id |-> -1]

\* utils/auth.py: bcrypt.gensalt() draws the salt; bcrypt.hashpw(password,
\* salt) is a digest of the two that begins with the salt, and
\* bcrypt.checkpw(password, hashed) hashes password with the salt of hashed
\* and compares.  The digest is taken to be free of collisions on the
\* passwords of the model (bcrypt reads the first 72 bytes of a password).
\* No answer depends on which salt is drawn: one value stands for the salts
\* of the signups, another for the salt of the user stored before.
Salts == {"salt1"}
hash_password(password, salt) == [salt |-> salt, digest |-> <<salt, password>>]
verify_password(plain_password, hashed_password) ==
    hash_password(plain_password, hashed_password.salt) = hashed_password

\* the document of a user stored before the first request
StoredUser == [_id |-> 0, username |-> "alice", email |-> "alice@x.io",
               hashed_password |-> hash_password("123456", "salt0")]

\* collection.find_one({"$or": [{"username": username}, {"email": email}]})
find_one_user(coll, username, email) ==
    { u \in coll : u.username = username \/ u.email = email }

\* insert_one on a collection without the unique indexes
insert_one_unindexed(coll, doc) ==
    [raised |-> FALSE, coll |-> coll \cup {doc}]

\* insert_one on the users collection: the unique indexes on username and on
\* email make it raise DuplicateKeyError
insert_one_user(coll, doc) ==
    IF \E u \in coll : u.username = doc.username \/ u.email = doc.email
    THEN [raised |-> TRUE, coll |-> coll]
    ELSE [raised |-> FALSE, coll |-> coll \cup {doc}]

\* the input validation of signup: the detail of the 400 it raises, "" when
\* the request passes
SignupInvalid(r) ==
    IF Len(r.username) < 3 THEN "Username must be at least 3 characters"
    ELSE IF Len(r.password) < 6 THEN "Password must be at least 6 characters"
    ELSE IF ~HasAt(r.email) THEN "Invalid email address"
    ELSE ""

SignupRequests ==
    [username : Usernames, email : Emails, password : Passwords,
     pc : {"start"}, status : {0}, detail : {""}, token : {NoToken}]

Answer(r, status, detail, token) ==
    [r EXCEPT !.pc = "done", !.status = status, !.detail = detail, !.token = token]

InitAuth ==
    /\ SessionIdle /\ StorageIdle /\ RandomIdle
    /\ sentiment_model = "None" /\ AudioModuleFresh
    /\ call = Idle /\ ret = NoRet
    /\ users \in {{}, {StoredUser}}
    /\ signups = <<>>
    /\ logins = <<>>

\* a client posts /auth/signup
SignupArrives ==
    /\ Len(signups) < MaxSignups
    /\ \E r \in SignupRequests : signups' = Append(signups, r)
    /\ UNCHANGED <<users, logins, analysisVars, sessionVars, storageVars, randomVars>>

\* signup up to the first await: the validation, then find_one of create_user
SignupFind(i) ==
    /\ signups[i].pc = "start"
    /\ LET r == signups[i]
       IN  signups' =
             [signups EXCEPT ![i] =
                IF SignupInvalid(r) # "" THEN Answer(r, 400, SignupInvalid(r), NoToken)
                ELSE IF find_one_user(users, r.username, r.email) # {}
                     THEN Answer(r, 400, "Username or email already exists", NoToken)
                     ELSE [r EXCEPT !.pc = "insert"]]
    /\ UNCHANGED <<users, logins, analysisVars, sessionVars, storageVars, randomVars>>

\* insert_one of create_user and the rest of signup; signup catches nothing,
\* so a DuplicateKeyError leaves it as the server's 500
SignupInsert(i) ==
    /\ signups[i].pc = "insert"
    /\ \E salt \in Salts :
         LET r   == signups[i]
             doc == [_id |-> i, username |-> r.username, email |-> r.email,
                     hashed_password |-> hash_password(r.password, salt)]
             ins == insert_one_user(users, doc)
         IN  /\ users' = ins.coll
             /\ signups' =
                  [signups EXCEPT ![i] =
                     IF ins.raised THEN Answer(r, 500, "Internal Server Error", NoToken)
                     ELSE Answer(r, 200, "", [sub |-> r.username, user_id |-> i])]
    /\ UNCHANGED <<logins, analysisVars, sessionVars, storageVars, randomVars>>

NextAuth ==
    \/ SignupArrives
    \/ \E i \in DOMAIN signups : SignupFind(i)
    \/ \E i \in DOMAIN signups : SignupInsert(i)

SpecAuth == InitAuth /\ [][NextAuth]_vars

\* C5: no two documents of the users collection have the same username, and
\* no two have the same email, whatever the interleaving of the create_user
\* calls.
C5_UsersUnique ==
    \A u1 \in users : \A u2 \in users :
        u1 # u2 => u1.username # u2.username /\ u1.email # u2.email

\* two create_user calls both passed find_one; the second insert_one was
\* refused by an index
C5_Witness ==
    /\ Cardinality(users) = 2
    /\ \E i \in DOMAIN signups : signups[i].status = 500

\* the username or the email of the request is held by a stored user
Held(r) == find_one_user(users, r.username, r.email) # {}

\* C6: a signup request that passes the validation and whose username or
\* email is held by a stored user when the handler answers is answered 400
\* "Username or email already exists", gets no token and leaves the users
\* collection unchanged, whatever is interleaved with it.
C6_DuplicateSignupIs400 ==
    [][\A i \in DOMAIN signups :
         ( /\ signups[i].pc # "done" /\ signups'[i].pc = "done"
           /\ SignupInvalid(signups[i]) = ""
           /\ Held(signups[i]) ) =>
             /\ signups'[i].status = 400
             /\ signups'[i].detail = "Username or email already exists"
             /\ signups'[i].token = NoToken
             /\ users' = users]_vars

(***************************************************************************)
(* models/session.py, app.py: the /sessions endpoints.                     *)
(*                                                                         *)
(* The sessions collection is a set of documents; its indexes are not      *)
(* unique.  A request is a slot of reqs.  A handler runs from one await to *)
(* the next and the database executes one operation at a time, so each     *)
(* step below is the code up to and including one database operation; ops  *)
(* counts the operations the request has made on the sessions collection.  *)
(***************************************************************************)
MaxReqs == 2         \* /sessions requests in one behaviour

SessionDate == "2024-05-01"

\* {} where an analysis or a fusion result is stored
NoAnalysis == [score |-> NoScore, bucket |-> "", enhanced |-> FALSE,
               llm_feedback |-> EmptyFeedback]
NoFusion   == [final_score |-> <<NoScore, 1>>, bucket |-> "",
               modality_scores |-> [m \in Modalities |-> NoScore]]

\* Session(...).to_mongo_dict()
Session(id, user_id, date) ==
    [_id |-> id, user_id |-> user_id, date |-> date,
     text_analysis |-> NoAnalysis, audio_analysis |-> NoAnalysis,
     image_analysis |-> NoAnalysis, fusion_result |-> NoFusion]

\* the sessions stored before the first request: none, or a session with the
\* three analyses
StoredAnalysis(score) ==
    [score |-> score, bucket |-> BucketOf(score), enhanced |-> FALSE,
     llm_feedback |-> EmptyFeedback]
StoredSession ==
    [Session(0, 0, SessionDate) EXCEPT !.text_analysis = StoredAnalysis(800),
                                       !.audio_analysis = StoredAnalysis(300),
                                       !.image_analysis = StoredAnalysis(500)]
InitialSessions == {{}, {StoredSession}}

\* the Authorization header: absent, or a token with a good or a bad
\* signature (or an expired one) over the claims sub and user_id, "" where
\* the claim is missing
NoHeader == [header |-> FALSE, signed |-> FALSE, sub |-> "", user_id |-> ""]
Bearer(signed, sub, user_id) ==
    [header |-> TRUE, signed |-> signed, sub |-> sub, user_id |-> user_id]
ValidToken == Bearer(TRUE, "alice", "0")
BadTokens ==
    { NoHeader, Bearer(FALSE, "alice", "0"), Bearer(TRUE, "", "0"),
      Bearer(TRUE, "alice", ""), Bearer(TRUE, "ghost", "9") }
Tokens == BadTokens \cup {ValidToken}

\* verify_token: the payload, or None when jwt.decode raises JWTError
verify_token(token) ==
    IF token.signed THEN [none |-> FALSE, sub |-> token.sub, user_id |-> token.user_id]
    ELSE [none |-> TRUE, sub |-> "", user_id |-> ""]

\* collection.find_one({"username": username})
get_user(coll, username) == { u \in coll : u.username = username }

Unauthorized(detail) == [status |-> 401, detail |-> detail, user_id |-> -1]

\* get_current_user without its "User not found" check
get_current_user_unchecked(token, coll) ==
    IF ~token.header THEN Unauthorized("Not authenticated")
    ELSE LET payload == verify_token(token)
         IN  IF payload.none THEN Unauthorized("Invalid token")
             ELSE IF payload.user_id = "" \/ payload.sub = ""
             THEN Unauthorized("Invalid token payload")
             ELSE [status |-> 200, detail |-> "",
                   user_id |-> IF get_user(coll, payload.sub) = {} THEN 9
                               ELSE (CHOOSE u \in get_user(coll, payload.sub) : TRUE)._id]

get_current_user(token, coll) ==
    IF ~token.header THEN Unauthorized("Not authenticated")
    ELSE LET payload == verify_token(token)
         IN  IF payload.none THEN Unauthorized("Invalid token")
             ELSE IF payload.user_id = "" \/ payload.sub = ""
             THEN Unauthorized("Invalid token payload")
             ELSE IF get_user(coll, payload.sub) = {}
             THEN Unauthorized("User not found")
             ELSE [status |-> 200, detail |-> "",
                   user_id |-> (CHOOSE u \in get_user(coll, payload.sub) : TRUE)._id]

(***************************************************************************)
(* app.py: /auth/login.  The handler reads the users collection once       *)
(* (find_one of get_user) and writes nothing: it is one step.  logins      *)
(* holds the requests answered so far.                                     *)
(***************************************************************************)
MaxLogins == 1       \* login requests in one behaviour

\* an authenticate_user that does not look at the password
authenticate_by_name(coll, username, password) == get_user(coll, username)

\* authenticate_user: the user as a set of at most one document, empty for
\* None
authenticate_user(coll, username, password) ==
    { u \in get_user(coll, username) : verify_password(password, u.hashed_password) }

\* the usernames of login requests: each is stored in some states and
\* unknown in others
LoginUsernames == {"alice", "bob"}

LoginRequests ==
    [username : LoginUsernames, password : Passwords,
     pc : {"start"}, status : {0}, detail : {""}, token : {NoToken}]

\* POST /auth/login
login ==
    /\ Len(logins) < MaxLogins
    /\ \E r \in LoginRequests :
         LET found == authenticate_user(users, r.username, r.password)
         IN  logins' = Append(logins,
               IF found = {}
               THEN Answer(r, 401, "Invalid username or password", NoToken)
               ELSE LET user == CHOOSE u \in found : TRUE
                    IN  Answer(r, 200, "",
                               [sub |-> user.username, user_id |-> user._id]))
    /\ UNCHANGED <<users, signups, analysisVars, sessionVars, storageVars, randomVars>>

NextLogin ==
    \/ SignupArrives
    \/ \E i \in DOMAIN signups : SignupFind(i)
    \/ \E i \in DOMAIN signups : SignupInsert(i)
    \/ login

\* SpecLogin: signups and logins interleaved
SpecLogin == InitAuth /\ [][NextLogin]_vars

\* the login request answered last in this step
LoginAnswered == Len(logins') = Len(logins) + 1

\* C16: /auth/login returns a token, whose sub is the username and whose
\* user_id is the id of the stored user, only when a user of that username is
\* stored and the password verifies against its stored hash; an unknown
\* username and a wrong password are both answered 401 "Invalid username or
\* password"; login never modifies the users collection.
C16_LoginAuthenticates ==
    [][LoginAnswered =>
         LET r      == logins'[Len(logins')]
             stored == get_user(users, r.username)
             ok     == \E u \in stored : verify_password(r.password, u.hashed_password)
         IN  /\ users' = users
             /\ ok => /\ r.status = 200
                      /\ r.token.sub = r.username
                      /\ \E u \in stored : r.token.user_id = u._id
             /\ ~ok => /\ r.status = 401
                       /\ r.detail = "Invalid username or password"
                       /\ r.token = NoToken]_vars

\* a user who signed up in this behaviour logged in
C16_Witness ==
    /\ Len(logins) = 1
    /\ logins[1].username = "bob" /\ logins[1].status = 200
    /\ logins[1].token.sub = "bob"
    /\ logins[1].token.user_id \in DOMAIN signups

\* a login with the username of a stored user and another password
WrongPasswordRefused ==
    /\ Len(logins) = 1
    /\ logins[1].username = "alice" /\ logins[1].password = "12345"
    /\ StoredUser \in users
    /\ logins[1].status = 401

\* the texts and the files a request carries
SessionTexts == {"calm"}
TextOf(input) == [neg |-> 0, pos |-> 0, words |-> 4]
AudioFiles == {"a.wav", "a.txt"}
ImageFiles == {"a.png", "a.gif"}
\* filename.endswith(('.wav', '.mp3', '.ogg', '.flac', '.webm'))
IsAudioFile(filename) == filename \in {"a.wav", "a.webm"}
\* filename.endswith(('.jpg', '.jpeg', '.png'))
IsImageFile(filename) == filename \in {"a.png"}
IsWebm(filename) == filename = "a.webm"

AnalyzeKinds == {"text", "audio", "image"}
Kinds == AnalyzeKinds \cup {"aggregate", "get"}
Inputs(kind) ==
    CASE kind = "text"  -> SessionTexts
      [] kind = "audio" -> AudioFiles
      [] kind = "image" -> ImageFiles
      [] OTHER          -> {""}

NoBase == [score |-> NoScore, bucket |-> ""]
NoEnhance == [enhanced |-> FALSE, has_llm_feedback |-> FALSE,
              llm_feedback |-> EmptyFeedback, outcome |-> "none"]

Request(kind, token, input) ==
    [kind |-> kind, token |-> token, input |-> input, date |-> SessionDate,
     pc |-> "auth", user_id |-> -1, ops |-> 0,
     result |-> NoBase, enhanced_result |-> NoEnhance, fusion_data |-> NoFusion,
     status |-> 0, detail |-> "", response |-> NoAnalysis,
     final |-> NoFusion, session_id |-> -1,
     limit |-> 30, range |-> <<"", "">>, returned |-> {}]

\* a request with a token that authenticates carries any input; the others
\* one input of their kind
SessionRequests ==
    UNION { { Request(k, ValidToken, x) : x \in Inputs(k) } : k \in Kinds }
      \cup { Request(k, t, CHOOSE x \in Inputs(k) : TRUE) : k \in Kinds, t \in BadTokens }

\* what the libraries do under a request
SessionInferences ==
    { [raises |-> TRUE,  label |-> "neutral",  conf |-> ConfSteps],
      [raises |-> FALSE, label |-> "negative", conf |-> ConfSteps] }
SessionAudioInferences ==
    { [raises |-> TRUE,  empty |-> FALSE, out |-> NoAudioOutput],
      [raises |-> FALSE, empty |-> FALSE,
       out |-> [NoAudioOutput EXCEPT !["happy"] = AudioProbSteps]] }
SessionAudioDraws == [i \in 1..6 |-> IF i = 3 THEN 17 ELSE 1]
SessionImageDraws ==
    { [i \in 1..8 |-> 1], [i \in 1..8 |-> IF i \in {1, 5} THEN 17 ELSE 1] }

\* what a handler keeps of the result of analyze_text / _audio / _image
Kept(r) == [score |-> r.score, bucket |-> r.bucket]

\* the analysis_data of a handler that takes the bucket from the level the
\* LLM gave
analysis_data_enhanced(result, enhanced_result) ==
    [score |-> result.score,
     bucket |-> IF enhanced_result.has_llm_feedback
                THEN enhanced_result.llm_feedback.level ELSE result.bucket,
     enhanced |-> enhanced_result.enhanced,
     llm_feedback |-> enhanced_result.llm_feedback]

\* analysis_data (lines 318-326, 380-388, 438-447) and the body of the
\* response (lines 330-339): .get("llm_feedback", {}) gives {} where the key
\* is missing
analysis_data(result, enhanced_result) ==
    [score |-> result.score,
     bucket |-> result.bucket,
     enhanced |-> enhanced_result.enhanced,
     llm_feedback |-> IF enhanced_result.has_llm_feedback
                      THEN enhanced_result.llm_feedback ELSE EmptyFeedback]

\* a find_one that looks at the date only
MatchingDate(user_id, date) == { d \in sessions : d.date = date }

\* collection.find_one({"user_id": ..., "date": ...}): the documents it may
\* return
Matching(user_id, date) ==
    { d \in sessions : d.user_id = user_id /\ d.date = date }

\* every update sets the text analysis
TextFieldOf(kind) == "text_analysis"

\* the field update_session_text / _audio / _image names in its $set
FieldOf(kind) ==
    CASE kind = "text"  -> "text_analysis"
      [] kind = "audio" -> "audio_analysis"
      [] OTHER          -> "image_analysis"

\* categorize_risk, of a score num / den
categorize_risk(score) == BucketOfFrac(score)

\* lines 485-496 of session_aggregate: the scores of the modalities whose
\* analysis is stored with a score
ModalityScores(session) ==
    [m \in Modalities |-> session[FieldOf(m)].score]
\* a session_aggregate that takes every modality for present
AllModalities(scores) == Modalities
PresentScores(scores) == { m \in Modalities : scores[m] # NoScore }

\* the weights of line 502, in tenths
SessionWeights == [text |-> 4, audio |-> 3, image |-> 3]

\* line 503: sum(score * weight) / len(modality_scores); the scores are
\* thousandths and the weights tenths
session_final_score(scores) ==
    LET P == PresentScores(scores)
    IN  << SumFn([m \in P |-> scores[m] * SessionWeights[m]], P),
           10000 * Cardinality(P) >>

Respond(r, status, detail) == [r EXCEPT !.pc = "done", !.status = status, !.detail = detail]

InitSessions ==
    /\ sentiment_model = "None" /\ AudioModuleFresh
    /\ call = Idle /\ ret = NoRet
    /\ users = {StoredUser} /\ signups = <<>> /\ logins = <<>>
    /\ StorageIdle /\ RandomIdle
    /\ sessions \in InitialSessions
    /\ reqs = <<>>
    /\ llm_config \in LLMConfigs
    /\ groq_client = "None"

\* a client sends a request to a /sessions endpoint
SessionRequestArrives ==
    /\ Len(reqs) < MaxReqs
    /\ \E r \in SessionRequests : reqs' = Append(reqs, r)
    /\ UNCHANGED <<sessions, llm_config, groq_client, analysisVars, authVars, storageVars, randomVars>>

\* Depends(get_current_user)
GetCurrentUser(i) ==
    /\ reqs[i].pc = "auth"
    /\ LET r == reqs[i]
           a == get_current_user(r.token, users)
       IN  reqs' = [reqs EXCEPT ![i] =
                      IF a.status = 401 THEN Respond(r, 401, a.detail)
                      ELSE [r EXCEPT !.pc = "body", !.user_id = a.user_id]]
    /\ UNCHANGED <<sessions, llm_config, groq_client, analysisVars, authVars, storageVars, randomVars>>

\* the handler has result and enhanced_result; get_session
AfterGetSession(r, result, enhanced_result) ==
    [r EXCEPT !.result = Kept(result), !.enhanced_result = enhanced_result,
              !.ops = @ + 1,
              !.pc = IF Matching(r.user_id, r.date) = {} THEN "create" ELSE "update"]

\* session_analyze_text up to get_session
session_analyze_text(i) ==
    /\ reqs[i].pc = "body" /\ reqs[i].kind = "text"
    /\ \E load \in LoadOutcomes, inf \in SessionInferences, tieUp \in BOOLEAN,
          init \in LoadOutcomes, reply \in LLMReplies :
         LET r      == reqs[i]
             model  == _load_models(sentiment_model, load)
             result == analyze_text(TextOf(r.input), model, inf, tieUp)
             groq   == _get_groq_client(llm_config, groq_client, init)
         IN  /\ sentiment_model' = model
             /\ groq_client' = groq.cache
             /\ reqs' = [reqs EXCEPT ![i] =
                  AfterGetSession(r, result,
                                  enhance_text_analysis(groq.client, result, reply))]
    /\ UNCHANGED <<sessions, llm_config, audio_model, LIBROSA_AVAILABLE,
                   TRANSFORMERS_AVAILABLE, PYDUB_AVAILABLE, call, ret, authVars, storageVars, randomVars>>

\* session_analyze_audio up to get_session; the HTTPException of the file
\* check is raised inside the try and caught by "except Exception"
session_analyze_audio(i) ==
    /\ reqs[i].pc = "body" /\ reqs[i].kind = "audio"
    /\ LET r == reqs[i]
       IN  IF ~IsAudioFile(r.input)
           THEN /\ reqs' = [reqs EXCEPT ![i] =
                      Respond(r, 500, "Audio analysis failed: 400: Invalid audio format")]
                /\ UNCHANGED <<audio_model, groq_client>>
           ELSE \E convOk \in BOOLEAN, load \in LoadOutcomes,
                   inf \in SessionAudioInferences, tieUp \in BOOLEAN,
                   init \in LoadOutcomes, reply \in LLMReplies :
                  LET webm   == IsWebm(r.input)
                      model  == IF AudioReachesLoad(webm, convOk)
                                THEN _load_audio_model(audio_model, load)
                                ELSE audio_model
                      result == analyze_audio(webm, convOk, model, inf, TRUE,
                                              SessionAudioDraws, tieUp)
                      groq   == _get_groq_client(llm_config, groq_client, init)
                  IN  /\ audio_model' = model
                      /\ groq_client' = groq.cache
                      /\ reqs' = [reqs EXCEPT ![i] =
                           AfterGetSession(r, result,
                                           enhance_audio_analysis(groq.client, result, reply))]
    /\ UNCHANGED <<sessions, llm_config, sentiment_model, LIBROSA_AVAILABLE,
                   TRANSFORMERS_AVAILABLE, PYDUB_AVAILABLE, call, ret, authVars, storageVars, randomVars>>

\* session_analyze_image up to get_session
session_analyze_image(i) ==
    /\ reqs[i].pc = "body" /\ reqs[i].kind = "image"
    /\ LET r == reqs[i]
       IN  IF ~IsImageFile(r.input)
           THEN /\ reqs' = [reqs EXCEPT ![i] =
                      Respond(r, 500, "Image analysis failed: 400: Invalid image format")]
                /\ UNCHANGED groq_client
           ELSE \E draws \in SessionImageDraws, tieUp \in BOOLEAN,
                   init \in LoadOutcomes, reply \in LLMReplies :
                  LET result == analyze_image(draws, tieUp)
                      groq   == _get_groq_client(llm_config, groq_client, init)
                  IN  /\ groq_client' = groq.cache
                      /\ reqs' = [reqs EXCEPT ![i] =
                           AfterGetSession(r, result,
                                           enhance_image_analysis(groq.client, result, reply))]
    /\ UNCHANGED <<sessions, llm_config, analysisVars, authVars, storageVars, randomVars>>

\* create_session: its find_one
create_session_find(i) ==
    /\ reqs[i].pc = "create"
    /\ LET r == reqs[i]
       IN  reqs' = [reqs EXCEPT ![i] =
                      [r EXCEPT !.ops = @ + 1,
                                !.pc = IF Matching(r.user_id, r.date) = {}
                                       THEN "insert" ELSE "update"]]
    /\ UNCHANGED <<sessions, llm_config, groq_client, analysisVars, authVars, storageVars, randomVars>>

\* create_session: its insert_one; no index of the collection is unique
create_session_insert(i) ==
    /\ reqs[i].pc = "insert"
    /\ LET r == reqs[i]
       IN  /\ sessions' = sessions \cup {Session(i, r.user_id, r.date)}
           /\ reqs' = [reqs EXCEPT ![i] = [r EXCEPT !.ops = @ + 1, !.pc = "update"]]
    /\ UNCHANGED <<llm_config, groq_client, analysisVars, authVars, storageVars, randomVars>>

\* update_session_text / _audio / _image: find_one_and_update sets the
\* analysis of one matching document; the handler then answers.  With no
\* matching document updated_session is None and its _id raises.
update_session(i) ==
    /\ reqs[i].pc = "update"
    /\ LET r    == reqs[i]
           data == analysis_data(r.result, r.enhanced_result)
       IN  IF Matching(r.user_id, r.date) = {}
           THEN /\ sessions' = sessions
                /\ reqs' = [reqs EXCEPT ![i] =
                     Respond([r EXCEPT !.ops = @ + 1], 500, "analysis failed")]
           ELSE \E d \in Matching(r.user_id, r.date) :
                  /\ sessions' = (sessions \ {d})
                                   \cup {[d EXCEPT ![FieldOf(r.kind)] = data]}
                  /\ reqs' = [reqs EXCEPT ![i] =
                       Respond([r EXCEPT !.ops = @ + 1,
                                         !.response = analysis_data(r.result,
                                                                    r.enhanced_result),
                                         !.session_id = d._id],
                               200, "success")]
    /\ UNCHANGED <<llm_config, groq_client, analysisVars, authVars, storageVars, randomVars>>

\* session_aggregate up to update_session_fusion
session_aggregate(i) ==
    /\ reqs[i].pc = "body" /\ reqs[i].kind = "aggregate"
    /\ LET r == reqs[i]
           q == [r EXCEPT !.ops = @ + 1]
       IN  IF Matching(r.user_id, r.date) = {}
           THEN reqs' = [reqs EXCEPT ![i] =
                           Respond(q, 404, "No session found for this date")]
           ELSE \E d \in Matching(r.user_id, r.date) :
                  LET scores == ModalityScores(d)
                      final  == session_final_score(scores)
                  IN  reqs' = [reqs EXCEPT ![i] =
                        IF PresentScores(scores) = {}
                        THEN Respond(q, 400, "No analysis data available for aggregation")
                        ELSE [q EXCEPT !.pc = "fusion",
                                       !.session_id = d._id,
                                       !.fusion_data =
                                          [final_score |-> final,
                                           bucket |-> categorize_risk(final),
                                           modality_scores |-> scores]]]
    /\ UNCHANGED <<sessions, llm_config, groq_client, analysisVars, authVars, storageVars, randomVars>>

\* update_session_fusion; session_aggregate answers whatever it returns
update_session_fusion(i) ==
    /\ reqs[i].pc = "fusion"
    /\ LET r == reqs[i]
           q == Respond([r EXCEPT !.ops = @ + 1, !.final = r.fusion_data],
                        200, "success")
       IN  /\ reqs' = [reqs EXCEPT ![i] = q]
           /\ IF Matching(r.user_id, r.date) = {} THEN sessions' = sessions
              ELSE \E d \in Matching(r.user_id, r.date) :
                     sessions' = (sessions \ {d})
                                   \cup {[d EXCEPT !.fusion_result = r.fusion_data]}
    /\ UNCHANGED <<llm_config, groq_client, analysisVars, authVars, storageVars, randomVars>>

\* GET /sessions/{session_date}
get_session_by_date(i) ==
    /\ reqs[i].pc = "body" /\ reqs[i].kind = "get"
    /\ LET r == reqs[i]
           q == [r EXCEPT !.ops = @ + 1]
       IN  IF Matching(r.user_id, r.date) = {}
           THEN reqs' = [reqs EXCEPT ![i] =
                           Respond(q, 404, "Session not found for this date")]
           ELSE \E d \in Matching(r.user_id, r.date) :
                  reqs' = [reqs EXCEPT ![i] =
                             Respond([q EXCEPT !.session_id = d._id], 200, "")]
    /\ UNCHANGED <<sessions, llm_config, groq_client, analysisVars, authVars, storageVars, randomVars>>

NextSessions ==
    \/ SessionRequestArrives
    \/ \E i \in DOMAIN reqs : GetCurrentUser(i)
    \/ \E i \in DOMAIN reqs : session_analyze_text(i)
    \/ \E i \in DOMAIN reqs : session_analyze_audio(i)
    \/ \E i \in DOMAIN reqs : session_analyze_image(i)
    \/ \E i \in DOMAIN reqs : create_session_find(i)
    \/ \E i \in DOMAIN reqs : create_session_insert(i)
    \/ \E i \in DOMAIN reqs : update_session(i)
    \/ \E i \in DOMAIN reqs : session_aggregate(i)
    \/ \E i \in DOMAIN reqs : update_session_fusion(i)
    \/ \E i \in DOMAIN reqs : get_session_by_date(i)

SpecSessions == InitSessions /\ [][NextSessions]_vars

\* C1: the sessions collection holds at most one document for a user id and
\* a date, whatever the interleaving of the handlers.
C1_OneSessionPerUserAndDate ==
    \A d1 \in sessions : \A d2 \in sessions :
        (d1.user_id = d2.user_id /\ d1.date = d2.date) => d1 = d2

\* the weights C4 names, in tenths
AggregateWeight(m) == CASE m = "text" -> 4 [] m = "audio" -> 3 [] OTHER -> 3

\* final_score is sum(w_m * score_m) / sum(w_m) over the modalities present
\* and the bucket is categorize_risk of it
IsWeightedAverage(f) ==
    LET P    == { m \in Modalities : f.modality_scores[m] # NoScore }
        sumw == SumFn([m \in P |-> AggregateWeight(m)], P)
        sums == SumFn([m \in P |-> AggregateWeight(m) * f.modality_scores[m]], P)
    IN  /\ f.final_score[1] * (1000 * sumw) = sums * f.final_score[2]
        /\ f.bucket = BucketOfFrac(f.final_score)

\* C4: the final_score /sessions/aggregate returns and stores is the
\* weighted average sum(w_m * score_m) / sum(w_m) of the scores of the
\* modalities present, with the weights 0.4, 0.3, 0.3, and its bucket is
\* categorize_risk of it.
C4_AggregateIsWeightedAverage ==
    /\ \A i \in DOMAIN reqs :
         (reqs[i].kind = "aggregate" /\ reqs[i].pc = "done" /\ reqs[i].status = 200)
           => IsWeightedAverage(reqs[i].final)
    /\ \A d \in sessions :
         d.fusion_result # NoFusion => IsWeightedAverage(d.fusion_result)

\* the four ways C7 names in which a request fails to authenticate, negated
Authenticates(token) ==
    /\ token.header
    /\ token.signed
    /\ token.sub # "" /\ token.user_id # ""
    /\ \E u \in users : u.username = token.sub

\* C7: a request that has no Authorization header, or a token verify_token
\* rejects, or a payload without sub or user_id, or the name of a user that
\* is not stored, never enters a handler body and makes no operation on the
\* sessions collection; it is answered 401.  Every session document was
\* stored before the first request or inserted by a request that
\* authenticates.
C7_HandlersRunAfterAuth ==
    /\ \A i \in DOMAIN reqs :
         ~Authenticates(reqs[i].token) =>
            /\ reqs[i].pc \in {"auth", "done"}
            /\ reqs[i].pc = "done" => reqs[i].status = 401
            /\ reqs[i].ops = 0
    /\ \A d \in sessions :
         d._id = 0 \/ (d._id \in DOMAIN reqs /\ Authenticates(reqs[d._id].token))

\* /sessions/aggregate with a well-signed token naming a user that is not
\* stored was answered 401 while a session is stored
C7_Witness ==
    /\ sessions # {}
    /\ \E i \in DOMAIN reqs :
         /\ reqs[i].kind = "aggregate" /\ reqs[i].token = Bearer(TRUE, "ghost", "9")
         /\ reqs[i].pc = "done" /\ reqs[i].status = 401
         /\ reqs[i].detail = "User not found"

\* an analysis request that authenticates and carries a file of an accepted
\* format (or a text)
Analysable(r) ==
    /\ r.kind \in AnalyzeKinds
    /\ Authenticates(r.token)
    /\ r.kind = "audio" => IsAudioFile(r.input)
    /\ r.kind = "image" => IsImageFile(r.input)

\* C8: the score and the bucket an analysis handler returns and stores are
\* those of the base analysis, whatever the enhancement did; when the
\* enhancement is unavailable or raises, the handler answers 200 all the
\* same and returns and stores enhanced = false and llm_feedback = {}.
C8_ScoreIndependentOfLLM ==
    \A i \in DOMAIN reqs :
       LET r == reqs[i]
       IN  (Analysable(r) /\ r.pc = "done") =>
             /\ r.status = 200
             /\ r.response.score = r.result.score
             /\ r.response.bucket = r.result.bucket
             /\ r.enhanced_result.outcome \in {"unavailable", "raised"} =>
                  /\ ~r.response.enhanced
                  /\ r.response.llm_feedback = EmptyFeedback
             /\ \E d \in sessions :
                  /\ d._id = r.session_id
                  /\ \/ d[FieldOf(r.kind)] = r.response
                     \/ \E j \in DOMAIN reqs :
                          /\ j # i /\ reqs[j].kind = r.kind /\ reqs[j].pc = "done"
                          /\ d[FieldOf(r.kind)] = reqs[j].response

\* two text requests with the same text and the same base analysis: the
\* LLM answered the first with a risk level that differs from the bucket
\* and raised under the second; both were answered 200 with that score and
\* that bucket
C8_Witness ==
    /\ Len(reqs) = 2
    /\ reqs[1].kind = "text" /\ reqs[2].kind = "text"
    /\ reqs[1].pc = "done" /\ reqs[2].pc = "done"
    /\ reqs[1].input = reqs[2].input /\ reqs[1].result = reqs[2].result
    /\ reqs[1].enhanced_result.outcome = "ok"
    /\ reqs[1].enhanced_result.llm_feedback.level # reqs[1].result.bucket
    /\ reqs[2].enhanced_result.outcome = "raised"
    /\ reqs[1].status = 200 /\ reqs[2].status = 200
    /\ reqs[1].response.score = reqs[2].response.score
    /\ reqs[1].response.bucket = reqs[2].response.bucket
    /\ reqs[1].response.enhanced /\ ~reqs[2].response.enhanced

\* a session none of whose analyses carries a score
Scoreless(d) == \A m \in Modalities : d[FieldOf(m)].score = NoScore

\* C12: /sessions/aggregate is answered 404 when the user has no session for
\* the date and 400 when the session holds no score; in both cases
\* update_session_fusion is not called (the request made one operation, the
\* get_session) and the sessions collection is left as it was.
C12_AggregateWithoutData ==
    /\ [](\A i \in DOMAIN reqs :
            ( /\ reqs[i].kind = "aggregate" /\ reqs[i].pc = "done"
              /\ reqs[i].status \in {404, 400} ) =>
                /\ reqs[i].ops = 1
                /\ reqs[i].final = NoFusion)
    /\ [][\A i \in DOMAIN reqs :
            ( /\ reqs[i].kind = "aggregate"
              /\ reqs[i].pc = "body" /\ reqs'[i].pc # "body" ) =>
                LET M == Matching(reqs[i].user_id, reqs[i].date)
                IN  /\ M = {} =>
                          /\ reqs'[i].pc = "done" /\ reqs'[i].status = 404
                          /\ sessions' = sessions
                    /\ (M # {} /\ \A d \in M : Scoreless(d)) =>
                          /\ reqs'[i].pc = "done" /\ reqs'[i].status = 400
                          /\ sessions' = sessions]_vars

\* an analysis request has created the session of the date and not yet
\* stored its analysis; /sessions/aggregate found that session and answered
\* 400
C12_Witness ==
    \E i \in DOMAIN reqs :
       /\ reqs[i].kind = "aggregate" /\ reqs[i].pc = "done"
       /\ reqs[i].status = 400 /\ reqs[i].ops = 1
       /\ \E d \in sessions : d.fusion_result = NoFusion

\* C21: in every reachable state, a session whose fusion_result is not empty
\* has fusion_result.modality_scores equal to the scores its text_analysis,
\* audio_analysis and image_analysis hold at that moment, for any sequence
\* of /sessions/analyze/* and /sessions/aggregate calls on the session.
C21_FusionMatchesAnalyses ==
    \A d \in sessions :
        d.fusion_result # NoFusion =>
            d.fusion_result.modality_scores = ModalityScores(d)

\* the sub-document of a session that holds the analysis of a modality
SubDocument(d, m) ==
    CASE m = "text"  -> d.text_analysis
      [] m = "audio" -> d.audio_analysis
      [] OTHER       -> d.image_analysis

\* the session of the date was stored before the first request
SessionExisted == \E d \in sessions : d._id = 0

\* C22: two /sessions/analyze requests of different modalities for the same
\* user and date that run concurrently on an existing session both take
\* effect: when both have completed the session document holds both new
\* sub-documents; the update of one leaves the sub-documents of the other
\* modalities as they were.
C22_ConcurrentAnalysesBothStored ==
    /\ [](\A i \in DOMAIN reqs : \A j \in DOMAIN reqs :
            ( /\ SessionExisted
              /\ Analysable(reqs[i]) /\ Analysable(reqs[j])
              /\ reqs[i].kind # reqs[j].kind
              /\ reqs[i].pc = "done" /\ reqs[j].pc = "done" ) =>
                /\ reqs[i].status = 200 /\ reqs[j].status = 200
                /\ \E d \in sessions :
                     /\ d.user_id = reqs[i].user_id /\ d.date = reqs[i].date
                     /\ SubDocument(d, reqs[i].kind) = reqs[i].response
                     /\ SubDocument(d, reqs[j].kind) = reqs[j].response)
    /\ [][\A i \in DOMAIN reqs :
            ( /\ SessionExisted /\ Analysable(reqs[i])
              /\ reqs[i].pc = "update" /\ reqs'[i].pc = "done" ) =>
                \E d \in sessions : \E e \in sessions' :
                    /\ e._id = d._id
                    /\ sessions' \ {e} = sessions \ {d}
                    /\ SubDocument(e, reqs[i].kind) = reqs'[i].response
                    /\ \A m \in Modalities \ {reqs[i].kind} :
                          SubDocument(e, m) = SubDocument(d, m)]_vars

\* a text request and an audio request on the stored session have both
\* completed; the session holds the analysis of each, and neither is the
\* analysis it held before
C22_Witness ==
    /\ Len(reqs) = 2
    /\ reqs[1].kind = "text" /\ reqs[2].kind = "audio"
    /\ reqs[1].pc = "done" /\ reqs[2].pc = "done"
    /\ reqs[1].status = 200 /\ reqs[2].status = 200
    /\ \E d \in sessions :
         /\ d._id = 0
         /\ d.text_analysis = reqs[1].response
         /\ d.audio_analysis = reqs[2].response
         /\ d.text_analysis # StoredSession.text_analysis
         /\ d.audio_analysis # StoredSession.audio_analysis

(***************************************************************************)
(* SpecIsolation: the /sessions endpoints with two users.  alice and bob   *)
(* are stored, bob has a session for the date and alice may have one; the  *)
(* requests carry the token /auth/login gave one of them.  session_chat    *)
(* reads through get_session and historical_chat through                   *)
(* get_user_sessions, as /sessions/{session_date} and /sessions/my-sessions*)
(* do.                                                                     *)
(***************************************************************************)
OtherUser == [StoredUser EXCEPT !._id = 1, !.username = "bob", !.email = "bob@x.io"]
OtherSession == [StoredSession EXCEPT !._id = 9, !.user_id = 1]

\* create_access_token({"sub": user.username, "user_id": str(user._id)})
UserTokens == { Bearer(TRUE, "alice", "0"), Bearer(TRUE, "bob", "1") }

\* the dates a range request names and their order as strings
RangeDates == {"", SessionDate, "9999"}
DateRank(date) ==
    CASE date = ""          -> 0
      [] date = SessionDate -> 1
      [] OTHER              -> 2

\* start_date and end_date of a range request: every date, the date of the
\* sessions, and a start after the end
Ranges == { <<"", "9999">>, <<SessionDate, SessionDate>>, <<"9999", "">> }

\* the limit of /sessions/my-sessions
Limits == {1, 30}

IsolationInput(kind) ==
    CASE kind = "text"  -> "calm"
      [] kind = "audio" -> "a.wav"
      [] kind = "image" -> "a.png"
      [] OTHER          -> ""
IsolationRequests ==
    { Request(k, t, IsolationInput(k)) : k \in Kinds, t \in UserTokens }
      \cup { [Request("my-sessions", t, "") EXCEPT !.limit = l] :
               t \in UserTokens, l \in Limits }
      \cup { [Request("range", t, "") EXCEPT !.range = x] :
               t \in UserTokens, x \in Ranges }

\* get_user_sessions: find({"user_id": ...}).sort("date", -1).limit(limit);
\* the sets of documents it may return (the order among equal dates is the
\* database's)
get_user_sessions(user_id, limit) ==
    LET own == { d \in sessions : d.user_id = user_id }
    IN  IF Cardinality(own) <= limit THEN {own}
        ELSE { S \in SUBSET own : Cardinality(S) = limit }

\* get_sessions_by_date_range: find({"user_id": ...,
\* "date": {"$gte": start_date, "$lte": end_date}})
get_sessions_by_date_range(user_id, start_date, end_date) ==
    { d \in sessions : /\ d.user_id = user_id
                       /\ DateRank(d.date) >= DateRank(start_date)
                       /\ DateRank(d.date) <= DateRank(end_date) }

InitIsolation ==
    /\ sentiment_model = "loaded"
    /\ LIBROSA_AVAILABLE = TRUE /\ TRANSFORMERS_AVAILABLE = TRUE
    /\ PYDUB_AVAILABLE = TRUE /\ audio_model = "loaded"
    /\ call = Idle /\ ret = NoRet
    /\ users = {StoredUser, OtherUser} /\ signups = <<>> /\ logins = <<>>
    /\ StorageIdle /\ RandomIdle
    /\ sessions \in {{OtherSession}, {StoredSession, OtherSession}}
    /\ reqs = <<>>
    /\ llm_config = LLMDisabled
    /\ groq_client = "None"

\* a client that has logged in sends a request to a /sessions endpoint
IsolationRequestArrives ==
    /\ Len(reqs) < MaxReqs
    /\ \E r \in IsolationRequests : reqs' = Append(reqs, r)
    /\ UNCHANGED <<sessions, llm_config, groq_client, analysisVars, authVars, storageVars, randomVars>>

\* GET /sessions/my-sessions
get_my_sessions(i) ==
    /\ reqs[i].pc = "body" /\ reqs[i].kind = "my-sessions"
    /\ LET r == reqs[i]
       IN  \E S \in get_user_sessions(r.user_id, r.limit) :
             reqs' = [reqs EXCEPT ![i] =
                        Respond([r EXCEPT !.ops = @ + 1, !.returned = S], 200, "")]
    /\ UNCHANGED <<sessions, llm_config, groq_client, analysisVars, authVars, storageVars, randomVars>>

\* GET /sessions/range/{start_date}/{end_date}
get_sessions_range(i) ==
    /\ reqs[i].pc = "body" /\ reqs[i].kind = "range"
    /\ LET r == reqs[i]
           S == get_sessions_by_date_range(r.user_id, r.range[1], r.range[2])
       IN  reqs' = [reqs EXCEPT ![i] =
                      Respond([r EXCEPT !.ops = @ + 1, !.returned = S], 200, "")]
    /\ UNCHANGED <<sessions, llm_config, groq_client, analysisVars, authVars, storageVars, randomVars>>

NextIsolation ==
    \/ IsolationRequestArrives
    \/ \E i \in DOMAIN reqs : GetCurrentUser(i)
    \/ \E i \in DOMAIN reqs : session_analyze_text(i)
    \/ \E i \in DOMAIN reqs : session_analyze_audio(i)
    \/ \E i \in DOMAIN reqs : session_analyze_image(i)
    \/ \E i \in DOMAIN reqs : create_session_find(i)
    \/ \E i \in DOMAIN reqs : create_session_insert(i)
    \/ \E i \in DOMAIN reqs : update_session(i)
    \/ \E i \in DOMAIN reqs : session_aggregate(i)
    \/ \E i \in DOMAIN reqs : update_session_fusion(i)
    \/ \E i \in DOMAIN reqs : get_session_by_date(i)
    \/ \E i \in DOMAIN reqs : get_my_sessions(i)
    \/ \E i \in DOMAIN reqs : get_sessions_range(i)

SpecIsolation == InitIsolation /\ [][NextIsolation]_vars

\* the id of the user a token was given to
OwnerOf(token) == (CHOOSE u \in users : u.username = token.sub)._id

\* C23: no /sessions request authenticated as user A reads, creates,
\* updates or returns a session document whose user_id differs from A's id,
\* whatever session_date, start_date or end_date A supplies; the sessions of
\* every other user are unchanged by A's requests.
C23_SessionIsolation ==
    /\ [](\A i \in DOMAIN reqs :
            LET r == reqs[i]
            IN  r.pc # "auth" =>
                  /\ r.user_id = OwnerOf(r.token)
                  /\ \A d \in r.returned : d.user_id = OwnerOf(r.token)
                  /\ \A d \in sessions :
                        d._id = r.session_id => d.user_id = OwnerOf(r.token))
    /\ [][\A i \in DOMAIN reqs :
            reqs'[i] # reqs[i] =>
                \A d \in sessions \cup sessions' :
                    d.user_id # OwnerOf(reqs[i].token) =>
                        d \in sessions /\ d \in sessions']_vars

\* bob has a session for the date and alice had none: her text request
\* created hers, and her range request over every date returned that
\* session alone; bob's session is as it was
C23_Witness ==
    /\ Len(reqs) = 2
    /\ reqs[1].kind = "text" /\ reqs[1].token.sub = "alice"
    /\ reqs[1].pc = "done" /\ reqs[1].status = 200 /\ reqs[1].session_id = 1
    /\ reqs[2].kind = "range" /\ reqs[2].token.sub = "alice"
    /\ reqs[2].range = <<"", "9999">>
    /\ reqs[2].pc = "done" /\ Cardinality(reqs[2].returned) = 1
    /\ \A d \in reqs[2].returned : d._id = 1 /\ d.text_analysis = reqs[1].response
    /\ OtherSession \in sessions /\ Cardinality(sessions) = 2

(***************************************************************************)
(* app.py: the endpoints that use STORAGE (services/storage.py).           *)
(*                                                                         *)
(* These handlers touch the module globals only after their last await     *)
(* (await file.read()), so each runs as one step.  http is the last        *)
(* request served and its answer; analysed tells whether the handler       *)
(* reached its analyser.  The suggestions and the explanation of a fusion  *)
(* are stored and returned but read by no one; they are left out.          *)
(***************************************************************************)
MaxAggregates == 1   \* daily aggregates held by STORAGE
TrendDays     == 7   \* get_trend_data(days=7) of /trend/7d
MaxTrendDays  == 3   \* days of a direct call of get_trend_data

\* len(audio_bytes) of an upload
FileSizes == {0, 500, 2000}

AnalysisLists  == {"text", "audio", "image"}
AggregateLists == {"daily_aggregate", "daily_aggregate_enhanced"}

StoredCount(storage) == TotalEntries(storage, DOMAIN storage)
AnalysesStored   == TotalEntries(STORAGE, DOMAIN STORAGE \cap AnalysisLists)
AggregatesStored == TotalEntries(STORAGE, DOMAIN STORAGE \cap AggregateLists)

Exchange(endpoint, input, analysed, status, detail, body) ==
    [endpoint |-> endpoint, input |-> input, analysed |-> analysed,
     status |-> status, detail |-> detail, body |-> body]

FileInput(filename, size) == [NoInput EXCEPT !.filename = filename, !.size = size]

\* the timestamp of a text request: none, or one of day 0
TextTimestamps == {NoTimestamp, 0}

\* request.timestamp or datetime.now().isoformat()
TimestampOr(timestamp, now) == IF timestamp = NoTimestamp THEN now ELSE timestamp

\* what a loader or a converter does is drawn where the call reads it
LoadsOf(cache) == IF cache = "None" THEN LoadOutcomes ELSE {"ok"}
ConversionsOf(filename) == IF IsWebm(filename) THEN BOOLEAN ELSE {TRUE}

\* what the sentiment model does under these endpoints: it answers
StorageInferences == { x \in SessionInferences : ~x.raises }

\* the draws of analyze_image under these endpoints: a face is detected
StorageImageDraws == { d \in SessionImageDraws : 20 * d[1] > RandomDen }

\* POST /analyze/text
analyze_text_endpoint ==
    /\ AnalysesStored < MaxStored
    /\ \E ts \in TextTimestamps, load \in LoadsOf(sentiment_model),
          inf \in StorageInferences, tieUp \in BOOLEAN :
         LET timestamp == TimestampOr(ts, today)
             model     == _load_models(sentiment_model, load)
             result    == analyze_text(TextOf("calm"), model, inf, tieUp)
         IN  /\ sentiment_model' = model
             /\ STORAGE' = store_analysis(STORAGE, "text",
                                          AnalysisData(result, timestamp), today)
             /\ http' = Exchange("/analyze/text", [NoInput EXCEPT !.timestamp = ts],
                                 TRUE, 200, "", Kept(result))
    /\ UNCHANGED <<audio_model, LIBROSA_AVAILABLE, TRANSFORMERS_AVAILABLE,
                   PYDUB_AVAILABLE, call, ret, today, authVars, sessionVars,
                   randomVars, storeVars>>

\* POST /analyze/text/enhanced
analyze_text_enhanced_endpoint ==
    /\ AnalysesStored < MaxStored
    /\ \E ts \in TextTimestamps, load \in LoadsOf(sentiment_model),
          inf \in StorageInferences, tieUp \in BOOLEAN,
          init \in LoadsOf(groq_client), reply \in LLMReplies :
         LET timestamp    == TimestampOr(ts, today)
             model        == _load_models(sentiment_model, load)
             model_result == analyze_text(TextOf("calm"), model, inf, tieUp)
             groq         == _get_groq_client(llm_config, groq_client, init)
             enhanced_result == enhance_text_analysis(groq.client, model_result, reply)
         IN  /\ sentiment_model' = model
             /\ groq_client' = groq.cache
             /\ STORAGE' = store_analysis(STORAGE, "text",
                                          EnhancedData(model_result, timestamp), today)
             /\ http' = Exchange("/analyze/text/enhanced",
                                 [NoInput EXCEPT !.timestamp = ts],
                                 TRUE, 200, "", enhanced_result)
    /\ UNCHANGED <<audio_model, LIBROSA_AVAILABLE, TRANSFORMERS_AVAILABLE,
                   PYDUB_AVAILABLE, call, ret, today, authVars, sessions, reqs,
                   llm_config, randomVars, storeVars>>

\* the analyze_audio call of an endpoint: the cache it leaves and the result
AudioCallOf(filename, convOk, load, inf, tieUp) ==
    LET webm  == IsWebm(filename)
        model == IF AudioReachesLoad(webm, convOk)
                 THEN _load_audio_model(audio_model, load) ELSE audio_model
    IN  [ model  |-> model,
          result |-> analyze_audio(webm, convOk, model, inf, TRUE,
                                   SessionAudioDraws, tieUp) ]

\* POST /analyze/audio: "except HTTPException: raise" lets the 400s through
analyze_audio_endpoint ==
    /\ \E filename \in AudioFiles, size \in FileSizes :
         /\ IsAudioFile(filename) \/ size = 2000
         /\ LET input == FileInput(filename, size)
                refuse(detail) ==
                  /\ http' = Exchange("/analyze/audio", input, FALSE, 400, detail, <<>>)
                  /\ UNCHANGED <<audio_model, STORAGE>>
            IN  IF ~IsAudioFile(filename)
                THEN refuse("Invalid audio format. Use WAV/MP3/OGG/FLAC/WEBM")
                ELSE IF size = 0 THEN refuse("Empty audio file")
                ELSE IF size < 1000 THEN refuse("Audio file too small")
                ELSE /\ AnalysesStored < MaxStored
                     /\ \E convOk \in ConversionsOf(filename), load \in LoadsOf(audio_model),
                           inf \in SessionAudioInferences, tieUp \in BOOLEAN :
                          LET c == AudioCallOf(filename, convOk, load, inf, tieUp)
                          IN  /\ audio_model' = c.model
                              /\ STORAGE' = store_analysis(STORAGE, "audio",
                                              AnalysisData(c.result, today), today)
                              /\ http' = Exchange("/analyze/audio", input, TRUE, 200, "",
                                                  Kept(c.result))
    /\ UNCHANGED <<sentiment_model, LIBROSA_AVAILABLE, TRANSFORMERS_AVAILABLE,
                   PYDUB_AVAILABLE, call, ret, today, authVars, sessionVars,
                   randomVars, storeVars>>

\* POST /analyze/audio/enhanced: the HTTPException of the file check is
\* raised inside the try and caught by "except Exception"
analyze_audio_enhanced_endpoint ==
    /\ \E filename \in AudioFiles :
         LET input == FileInput(filename, 2000)
         IN  IF ~IsAudioFile(filename)
             THEN /\ http' = Exchange("/analyze/audio/enhanced", input, FALSE, 500,
                                      "Enhanced audio analysis failed", <<>>)
                  /\ UNCHANGED <<audio_model, groq_client, STORAGE>>
             ELSE /\ AnalysesStored < MaxStored
                  /\ \E convOk \in ConversionsOf(filename), load \in LoadsOf(audio_model),
                        inf \in SessionAudioInferences, tieUp \in BOOLEAN,
                        init \in LoadsOf(groq_client), reply \in LLMReplies :
                       LET c    == AudioCallOf(filename, convOk, load, inf, tieUp)
                           groq == _get_groq_client(llm_config, groq_client, init)
                           enhanced_result ==
                             enhance_audio_analysis(groq.client, c.result, reply)
                       IN  /\ audio_model' = c.model
                           /\ groq_client' = groq.cache
                           /\ STORAGE' = store_analysis(STORAGE, "audio",
                                           EnhancedData(c.result, today), today)
                           /\ http' = Exchange("/analyze/audio/enhanced", input, TRUE,
                                               200, "", enhanced_result)
    /\ UNCHANGED <<sentiment_model, LIBROSA_AVAILABLE, TRANSFORMERS_AVAILABLE,
                   PYDUB_AVAILABLE, call, ret, today, authVars, sessions, reqs,
                   llm_config, randomVars, storeVars>>

\* POST /analyze/image: "except HTTPException: raise" lets the 400 through
analyze_image_endpoint ==
    /\ \E filename \in ImageFiles :
         LET input == FileInput(filename, 2000)
         IN  IF ~IsImageFile(filename)
             THEN /\ http' = Exchange("/analyze/image", input, FALSE, 400,
                                      "Invalid image format. Use JPG/PNG", <<>>)
                  /\ UNCHANGED STORAGE
             ELSE /\ AnalysesStored < MaxStored
                  /\ \E draws \in StorageImageDraws, tieUp \in BOOLEAN :
                       LET result == analyze_image(draws, tieUp)
                       IN  /\ STORAGE' = store_analysis(STORAGE, "image",
                                           AnalysisData(result, today), today)
                           /\ http' = Exchange("/analyze/image", input, TRUE, 200, "",
                                               Kept(result))
    /\ UNCHANGED <<analysisVars, today, authVars, sessionVars, randomVars, storeVars>>

\* POST /analyze/image/enhanced: the HTTPException of the file check is
\* raised inside the try and caught by "except Exception"
analyze_image_enhanced_endpoint ==
    /\ \E filename \in ImageFiles :
         LET input == FileInput(filename, 2000)
         IN  IF ~IsImageFile(filename)
             THEN /\ http' = Exchange("/analyze/image/enhanced", input, FALSE, 500,
                                      "Enhanced image analysis failed", <<>>)
                  /\ UNCHANGED <<groq_client, STORAGE>>
             ELSE /\ AnalysesStored < MaxStored
                  /\ \E draws \in StorageImageDraws, tieUp \in BOOLEAN,
                        init \in LoadsOf(groq_client), reply \in LLMReplies :
                       LET model_result == analyze_image(draws, tieUp)
                           groq == _get_groq_client(llm_config, groq_client, init)
                           enhanced_result ==
                             enhance_image_analysis(groq.client, model_result, reply)
                       IN  /\ groq_client' = groq.cache
                           /\ STORAGE' = store_analysis(STORAGE, "image",
                                           EnhancedData(model_result, today), today)
                           /\ http' = Exchange("/analyze/image/enhanced", input, TRUE,
                                               200, "", enhanced_result)
    /\ UNCHANGED <<analysisVars, today, authVars, sessions, reqs, llm_config,
                   randomVars, storeVars>>

\* enhance_daily_fusion: its three returns
enhance_daily_fusion(client, fusion_result, reply) ==
    LET original == [final_score |-> fusion_result.final_score,
                     bucket |-> fusion_result.bucket]
    IN  IF client = "None"
        THEN [enhanced |-> FALSE, outcome |-> "unavailable",
              original |-> original, risk_level |-> ""]
        ELSE IF reply.raises
        THEN [enhanced |-> FALSE, outcome |-> "raised",
              original |-> original, risk_level |-> ""]
        ELSE [enhanced |-> TRUE, outcome |-> "ok", original |-> original,
              risk_level |-> IF reply.level = "" THEN fusion_result.bucket
                             ELSE reply.level]

\* what /aggregate/day returns of the fusion
FusionBody(result) ==
    [final_score |-> result.final_score, bucket |-> result.bucket,
     modality_scores |-> result.modality_scores]

\* POST /aggregate/day: whatever aggregate_daily_scores raises is answered
\* 500 and nothing is stored
aggregate_day_endpoint ==
    /\ \E date \in Days, tieUp \in BOOLEAN :
         LET input      == [NoInput EXCEPT !.date = date]
             daily_data == get_daily_entries(STORAGE, date)
             result     == aggregate_daily_scores(daily_data.text, daily_data.audio,
                                                  daily_data.image, DEFAULT_WEIGHTS, tieUp)
         IN  IF result.raised
             THEN /\ http' = Exchange("/aggregate/day", input, TRUE, 500,
                                      "Daily aggregation failed", <<>>)
                  /\ UNCHANGED STORAGE
             ELSE /\ AggregatesStored < MaxAggregates
                  /\ STORAGE' = store_analysis(STORAGE, "daily_aggregate",
                                               AggregateData(date, result), today)
                  /\ http' = Exchange("/aggregate/day", input, TRUE, 200, "",
                                      FusionBody(result))
    /\ UNCHANGED <<analysisVars, today, authVars, sessionVars, randomVars, storeVars>>

\* POST /aggregate/day/enhanced: the first store_analysis under
\* "daily_aggregate_enhanced" adds that list to STORAGE
aggregate_day_enhanced_endpoint ==
    /\ \E date \in Days, tieUp \in BOOLEAN, init \in LoadsOf(groq_client), reply \in LLMReplies :
         LET input      == [NoInput EXCEPT !.date = date]
             daily_data == get_daily_entries(STORAGE, date)
             fusion_result == aggregate_daily_scores(daily_data.text, daily_data.audio,
                                                     daily_data.image, DEFAULT_WEIGHTS,
                                                     tieUp)
             groq == _get_groq_client(llm_config, groq_client, init)
         IN  IF fusion_result.raised
             THEN /\ http' = Exchange("/aggregate/day/enhanced", input, TRUE, 500,
                                      "Enhanced daily aggregation failed", <<>>)
                  /\ UNCHANGED <<STORAGE, groq_client>>
             ELSE /\ AggregatesStored < MaxAggregates
                  /\ groq_client' = groq.cache
                  /\ STORAGE' = store_analysis(STORAGE, "daily_aggregate_enhanced",
                                   EnhancedAggregateData(date, fusion_result), today)
                  /\ http' = Exchange("/aggregate/day/enhanced", input, TRUE, 200, "",
                                      enhance_daily_fusion(groq.client, fusion_result,
                                                           reply))
    /\ UNCHANGED <<analysisVars, today, authVars, sessions, reqs, llm_config,
                   randomVars, storeVars>>

TrendBody(trend_data) ==
    [dates |-> trend_data.dates, scores |-> trend_data.scores,
     buckets |-> trend_data.buckets]

\* GET /trend/7d
get_trend_endpoint ==
    /\ \E tieUp \in BOOLEAN :
         LET trend_data == get_trend_data(STORAGE, today, TrendDays, tieUp)
             input      == [NoInput EXCEPT !.days = TrendDays]
         IN  http' = IF trend_data.raised
                     THEN Exchange("/trend/7d", input, FALSE, 500,
                                   "Trend retrieval failed", <<>>)
                     ELSE Exchange("/trend/7d", input, FALSE, 200, "",
                                   TrendBody(trend_data))
    /\ UNCHANGED <<STORAGE, analysisVars, today, authVars, sessionVars, randomVars, storeVars>>

\* a call of get_trend_data(days) with another number of days
CallGetTrendData ==
    /\ \E days \in 0..MaxTrendDays, tieUp \in BOOLEAN :
         LET trend_data == get_trend_data(STORAGE, today, days, tieUp)
             input      == [NoInput EXCEPT !.days = days]
         IN  http' = IF trend_data.raised
                     THEN Exchange("get_trend_data", input, FALSE, 500, "raised", <<>>)
                     ELSE Exchange("get_trend_data", input, FALSE, 200, "",
                                   TrendBody(trend_data))
    /\ UNCHANGED <<STORAGE, analysisVars, today, authVars, sessionVars, randomVars, storeVars>>

\* DELETE /purge
purge_data_endpoint ==
    /\ LET purged == purge_all_data(STORAGE)
       IN  /\ STORAGE' = purged.storage
           /\ http' = Exchange("/purge", NoInput, FALSE, 200, "success",
                               [deleted_count |-> purged.total_deleted])
    /\ UNCHANGED <<analysisVars, today, authVars, sessionVars, randomVars, storeVars>>

\* GET /stats
get_stats_endpoint ==
    /\ http' = Exchange("/stats", NoInput, FALSE, 200, "", get_stats(STORAGE))
    /\ UNCHANGED <<STORAGE, analysisVars, today, authVars, sessionVars, randomVars, storeVars>>

\* midnight: datetime.now() gives the next day
DayPasses ==
    /\ today < MaxDay
    /\ today' = today + 1
    /\ UNCHANGED <<STORAGE, http, analysisVars, authVars, sessionVars, randomVars, storeVars>>

\* the server has run for a while: both models are loaded and the client of
\* the LLM is cached
InitStorage ==
    /\ sentiment_model = "loaded"
    /\ LIBROSA_AVAILABLE = TRUE /\ TRANSFORMERS_AVAILABLE = TRUE
    /\ PYDUB_AVAILABLE = TRUE /\ audio_model = "loaded"
    /\ call = Idle /\ ret = NoRet
    /\ AuthIdle /\ RandomIdle
    /\ sessions = {} /\ reqs = <<>>
    /\ llm_config = LLMReady /\ groq_client = "client"
    /\ StorageIdle

NextStorage ==
    \/ analyze_text_endpoint
    \/ analyze_audio_endpoint
    \/ analyze_image_endpoint
    \/ analyze_text_enhanced_endpoint
    \/ analyze_audio_enhanced_endpoint
    \/ analyze_image_enhanced_endpoint
    \/ aggregate_day_endpoint
    \/ aggregate_day_enhanced_endpoint
    \/ get_trend_endpoint
    \/ CallGetTrendData
    \/ purge_data_endpoint
    \/ get_stats_endpoint
    \/ DayPasses

SpecStorage == InitStorage /\ [][NextStorage]_vars

\* the last request was an upload to an audio or image analyze endpoint of
\* a file whose name has no supported extension
UnsupportedUpload(h) ==
    \/ /\ h.endpoint \in {"/analyze/audio", "/analyze/audio/enhanced"}
       /\ ~IsAudioFile(h.input.filename)
    \/ /\ h.endpoint \in {"/analyze/image", "/analyze/image/enhanced"}
       /\ ~IsImageFile(h.input.filename)

UnsupportedSessionUpload(r) ==
    /\ Authenticates(r.token)
    /\ \/ r.kind = "audio" /\ ~IsAudioFile(r.input)
       \/ r.kind = "image" /\ ~IsImageFile(r.input)

\* C11: an upload whose filename has no supported extension is answered 400
\* by /analyze/audio, /analyze/image, their /enhanced variants and
\* /sessions/analyze/audio and /image; the analyser is not called, STORAGE
\* is left as it was and no operation is made on the sessions collection.
C11_UnsupportedUploadIs400 ==
    /\ [](UnsupportedUpload(http) => (http.status = 400 /\ ~http.analysed))
    /\ [](\A i \in DOMAIN reqs :
            (UnsupportedSessionUpload(reqs[i]) /\ reqs[i].pc = "done") =>
               /\ reqs[i].status = 400
               /\ reqs[i].result = NoBase
               /\ reqs[i].ops = 0)
    /\ [][UnsupportedUpload(http') =>
            (STORAGE' = STORAGE /\ sessions' = sessions)]_vars

\* a step in which /purge is served
PurgeStep == http'.endpoint = "/purge" /\ today' = today

\* get_trend_data(days) reports None / "No Data" for each of its dates
TrendHasNoData(days) ==
    \A tieUp \in BOOLEAN :
        LET trend_data == get_trend_data(STORAGE, today, days, tieUp)
        IN  /\ ~trend_data.raised
            /\ Len(trend_data.dates) = days
            /\ \A i \in DOMAIN trend_data.dates :
                  /\ trend_data.scores[i] = NoScore
                  /\ trend_data.buckets[i] = "No Data"

\* C14: purge_all_data returns the number of entries held across all the
\* lists of STORAGE at the moment of the call, the lists added later such as
\* daily_aggregate_enhanced included; immediately afterwards every list is
\* empty, get_stats reports total_entries 0, get_trend_data reports None and
\* "No Data" for every date, and a second purge returns 0.
C14_PurgeDeletesEverything ==
    /\ [](http.endpoint = "/purge" =>
            /\ \A m \in DOMAIN STORAGE : STORAGE[m] = <<>>
            /\ get_stats(STORAGE).total_entries = 0
            /\ \A m \in DOMAIN STORAGE : get_stats(STORAGE).by_modality[m] = 0
            /\ TrendHasNoData(TrendDays))
    /\ [][PurgeStep =>
            /\ http'.body.deleted_count = StoredCount(STORAGE)
            /\ http.endpoint = "/purge" => http'.body.deleted_count = 0]_vars

\* a purge that deleted an analysis and an enhanced daily aggregate, from the
\* list the first /aggregate/day/enhanced added
C14_Witness ==
    /\ http.endpoint = "/purge" /\ http.body.deleted_count >= 2
    /\ "daily_aggregate_enhanced" \in DOMAIN STORAGE

\* a step in which get_trend_data returns
TrendStep ==
    /\ http'.endpoint \in {"/trend/7d", "get_trend_data"} /\ http'.status = 200
    /\ today' = today

\* C15: get_trend_data(days) returns three lists dates, scores and buckets
\* of the same length, equal to days (days >= 0); the dates are consecutive
\* days in ascending order and the last is today's date; get_trend_data
\* does not modify STORAGE.
C15_TrendShape ==
    [][TrendStep =>
         LET body == http'.body
             days == http'.input.days
         IN  /\ Len(body.dates) = days
             /\ Len(body.scores) = days
             /\ Len(body.buckets) = days
             /\ \A i \in 1..(days - 1) : body.dates[i + 1] = body.dates[i] + 1
             /\ days > 0 => body.dates[days] = today
             /\ STORAGE' = STORAGE]_vars

\* /trend/7d answered seven days, one of which has a score
C15_Witness ==
    /\ http.endpoint = "/trend/7d" /\ http.status = 200
    /\ Len(http.body.dates) = 7
    /\ \E i \in 1..7 : http.body.scores[i] # NoScore

\* C19: aggregate_daily_scores on the entries get_daily_entries returns for
\* a date never raises, whatever mix of endpoints stored them: /aggregate/day
\* and /trend/7d are never answered 500 because of what is stored.
C19_StoredEntriesNeverRaise ==
    /\ \A date \in Days, tieUp \in BOOLEAN :
          LET daily_data == get_daily_entries(STORAGE, date)
          IN  ~aggregate_daily_scores(daily_data.text, daily_data.audio,
                                      daily_data.image, DEFAULT_WEIGHTS, tieUp).raised
    /\ http.endpoint \in {"/aggregate/day", "/trend/7d"} => http.status # 500

\* the score of the base model in a stored analysis: "score", or
\* "model_result"["score"] in what an /enhanced endpoint stored
BaseScore(data) == IF data.score # NoScore THEN data.score ELSE data.model_result

BaseScoreSum(analyses) ==
    SumSeq([i \in 1..Len(analyses) |-> BaseScore(analyses[i])])

NoAnalysisOn(storage, date_str) ==
    \A m \in Modalities : get_daily_entries(storage, date_str)[m] = <<>>

\* C25: for every date of the trend window on which no text, audio or image
\* analysis is stored, get_trend_data reports the score None and the bucket
\* "No Data", after any sequence of analyze, /aggregate/day and purge calls.
C25_EmptyDatesHaveNoData ==
    \A tieUp \in BOOLEAN :
        LET trend_data == get_trend_data(STORAGE, today, TrendDays, tieUp)
        IN  ~trend_data.raised =>
              \A i \in DOMAIN trend_data.dates :
                  NoAnalysisOn(STORAGE, trend_data.dates[i]) =>
                      /\ trend_data.scores[i] = NoScore
                      /\ trend_data.buckets[i] = "No Data"

(***************************************************************************)
(* SpecStore: the calls of store_analysis and purge_all_data, one by one,  *)
(* with what the endpoints pass.  clock is the reading of datetime.now()   *)
(* within the day; it may or may not have advanced between two calls.      *)
(* storage_calls keeps each call and what it returned.                     *)
(***************************************************************************)
MaxStoreCalls == 3   \* calls of store_analysis and purge_all_data
MaxClock      == 1   \* readings of the clock within the day

\* the dict an /analyze endpoint stores on day 0 for an analysis whose
\* score is given
AnalysisScored(score) ==
    AnalysisData([score |-> score, bucket |-> BucketOf(score)], 0)

\* the dict /aggregate/day stores for day 0 when these text analyses are
\* the analyses of the day
StoredAggregate(text_analyses) ==
    AggregateData(0, aggregate_daily_scores(text_analyses, <<>>, <<>>,
                                            DEFAULT_WEIGHTS, TRUE))

StoreCalls ==
    { [modality |-> "text",  data |-> AnalysisScored(105)],
      [modality |-> "daily_aggregate", data |-> StoredAggregate(<<>>)],
      [modality |-> "daily_aggregate",
       data |-> StoredAggregate(<<AnalysisScored(105)>>)],
      [modality |-> "daily_aggregate_enhanced",
       data |-> EnhancedAggregateData(0, _no_data_response)] }

\* a call of store_analysis(modality, data): the entry is appended and the
\* id is returned
CallStoreAnalysis ==
    /\ Len(storage_calls) < MaxStoreCalls
    /\ \E c \in StoreCalls :
         /\ STORAGE' = store_analysis(STORAGE, c.modality, c.data, today)
         /\ storage_calls' =
              Append(storage_calls,
                     [ fn |-> "store_analysis", modality |-> c.modality,
                       data |-> c.data,
                       returned |-> analysis_id(c.modality, today, clock) ])
    /\ UNCHANGED <<clock, today, http, analysisVars, authVars, sessionVars, randomVars>>

\* a call of purge_all_data()
CallPurgeAllData ==
    /\ Len(storage_calls) < MaxStoreCalls
    /\ LET purged == purge_all_data(STORAGE)
       IN  /\ STORAGE' = purged.storage
           /\ storage_calls' =
                Append(storage_calls,
                       [ fn |-> "purge_all_data", modality |-> "",
                         data |-> <<>>, returned |-> <<purged.total_deleted>> ])
    /\ UNCHANGED <<clock, today, http, analysisVars, authVars, sessionVars, randomVars>>

\* datetime.now() reads a later microsecond
ClockAdvances ==
    /\ clock < MaxClock
    /\ clock' = clock + 1
    /\ UNCHANGED <<STORAGE, storage_calls, today, http, analysisVars, authVars,
                   sessionVars, randomVars>>

NextStore ==
    \/ CallStoreAnalysis
    \/ CallPurgeAllData
    \/ ClockAdvances
    \/ get_trend_endpoint
    \/ get_stats_endpoint

SpecStore == InitStorage /\ [][NextStore]_vars

\* the calls of store_analysis among the calls so far
StoreIndexes == { i \in DOMAIN storage_calls : storage_calls[i].fn = "store_analysis" }

\* C26: the analysis ids returned by store_analysis are pairwise distinct
\* over all calls, including calls for the same modality that happen at the
\* same reading of the clock.
C26_AnalysisIdsDistinct ==
    \A i, j \in StoreIndexes :
        i # j => storage_calls[i].returned # storage_calls[j].returned

\* the calls of store_analysis since the last call of purge_all_data
RECURSIVE StoresSincePurge(_)
StoresSincePurge(calls) ==
    IF calls = <<>> THEN 0
    ELSE LET last == calls[Len(calls)]
         IN  IF last.fn = "purge_all_data" THEN 0
             ELSE 1 + StoresSincePurge(SubSeq(calls, 1, Len(calls) - 1))

\* a step that is a call of store_analysis
StoreStep ==
    /\ Len(storage_calls') = Len(storage_calls) + 1
    /\ storage_calls'[Len(storage_calls')].fn = "store_analysis"

\* C27: each store_analysis(modality, data) call appends exactly one entry
\* to the list of that modality (creating the list when the modality is new)
\* and leaves every other list and every entry stored before unchanged;
\* get_stats().total_entries equals the number of store_analysis calls made
\* since the last purge_all_data and equals the sum of by_modality.
C27_StoreAppendsOneEntry ==
    /\ [][StoreStep =>
            LET c    == storage_calls'[Len(storage_calls')]
                old  == IF c.modality \in DOMAIN STORAGE THEN STORAGE[c.modality]
                        ELSE <<>>
            IN  /\ DOMAIN STORAGE' = DOMAIN STORAGE \cup {c.modality}
                /\ Len(STORAGE'[c.modality]) = Len(old) + 1
                /\ SubSeq(STORAGE'[c.modality], 1, Len(old)) = old
                /\ STORAGE'[c.modality][Len(old) + 1].data = c.data
                /\ \A m \in DOMAIN STORAGE \ {c.modality} :
                       STORAGE'[m] = STORAGE[m]]_vars
    /\ [](LET stats == get_stats(STORAGE)
          IN  /\ stats.total_entries = StoresSincePurge(storage_calls)
              /\ stats.total_entries =
                   SumFn(stats.by_modality, DOMAIN stats.by_modality))

\* /stats answered after a purge and two later calls of store_analysis, one
\* of them for a modality STORAGE had no list of
C27_Witness ==
    /\ Len(storage_calls) = 3
    /\ storage_calls[1].fn = "purge_all_data"
    /\ storage_calls[2].modality = "daily_aggregate_enhanced"
    /\ storage_calls[3].modality = "text"
    /\ http.endpoint = "/stats" /\ http.body.total_entries = 2
    /\ http.body.by_modality["daily_aggregate_enhanced"] = 1

\* the daily aggregates stored for the date, as indexes of the list
AggregateIndexes(storage, date) ==
    { i \in DOMAIN storage["daily_aggregate"] :
        storage["daily_aggregate"][i].data.date = date }

\* the daily aggregate for the date that was stored first
EarliestAggregate(storage, date) ==
    LET idx == AggregateIndexes(storage, date)
    IN  storage["daily_aggregate"][CHOOSE i \in idx : \A j \in idx : i <= j].data

\* what get_trend_data reports for the date: its score and its bucket, or
\* nothing when the call raises or the date is outside the window
TrendReport(storage, now, date, tieUp) ==
    LET trend_data == get_trend_data(storage, now, TrendDays, tieUp)
    IN  IF trend_data.raised THEN <<>>
        ELSE LET at == { i \in DOMAIN trend_data.dates : trend_data.dates[i] = date }
             IN  IF at = {} THEN <<>>
                 ELSE LET i == CHOOSE k \in at : TRUE
                      IN  <<trend_data.scores[i], trend_data.buckets[i]>>

\* C24: once a daily_aggregate entry for a date D has been stored,
\* get_trend_data reports for D the final_score and the bucket of the
\* earliest stored daily_aggregate entry for D, and no later store_analysis
\* call (an analysis for D or another aggregate for D) changes what it
\* reports, until purge_all_data.  (The analyses stored here are those of
\* the /analyze endpoints, on which the fusion does not raise.)
C24_TrendReportsEarliestAggregate ==
    /\ [](\A date \in Days, tieUp \in BOOLEAN :
            AggregateIndexes(STORAGE, date) # {} =>
                LET first  == EarliestAggregate(STORAGE, date)
                    report == TrendReport(STORAGE, today, date, tieUp)
                IN  /\ report # <<>>
                    /\ report = <<first.final_score, first.bucket>>)
    /\ [][\A date \in Days, tieUp \in BOOLEAN :
            (StoreStep /\ AggregateIndexes(STORAGE, date) # {}) =>
                TrendReport(STORAGE', today', date, tieUp)
                    = TrendReport(STORAGE, today, date, tieUp)]_vars

\* two daily aggregates of different scores are stored for day 0, then an
\* analysis, and /trend/7d reports the score of the first aggregate
C24_Witness ==
    /\ Len(STORAGE["daily_aggregate"]) = 2
    /\ AggregateIndexes(STORAGE, 0) = {1, 2}
    /\ STORAGE["daily_aggregate"][1].data.final_score
         # STORAGE["daily_aggregate"][2].data.final_score
    /\ Len(storage_calls) = 3 /\ storage_calls[3].modality = "text"
    /\ http.endpoint = "/trend/7d" /\ http.status = 200
    /\ http.body.scores[TrendDays] = STORAGE["daily_aggregate"][1].data.final_score

(***************************************************************************)
(* The placeholder scorers and the module random (image_infer.py lines     *)
(* 49-76, audio_infer.py lines 280-289).                                   *)
(*                                                                         *)
(* random is a deterministic generator: after random.seed(a) the k-th      *)
(* random.random() is a fixed function of a and k.  Which function is not  *)
(* modelled: Init draws it, as generator, and no step changes it.  The     *)
(* direction in which a float half way between two thousandths rounds is   *)
(* fixed by the draws: it is a function of the stream of draws.  The       *)
(* other specifications draw the draws freely and leave random_state       *)
(* alone.  A filename is the sequence of its character codes; analyze_image*)
(* and _analyze_audio_fallback run without an await, one call at a time.   *)
(***************************************************************************)
MaxCalls == 3        \* calls of the placeholder scorers in one behaviour

\* a stream is longer than what one call reads of it
StreamLen == 9
NoFaceStream == [i \in 1..StreamLen |-> IF i = 1 THEN 1 ELSE 17]
FaceStream   == [i \in 1..StreamLen |-> IF i = 2 THEN 1 ELSE 17]
Streams      == {NoFaceStream, FaceStream}

\* "ab.png", "ba.png" and "ac.png" without their common suffix
PlaceholderNames == { <<97, 98>>, <<98, 97>>, <<97, 99>> }
FileBytes        == {"bytes1", "bytes2"}

\* sum(ord(c) for c in filename)
filename_hash(filename) == SumSeq(filename)

\* the seeds of the filenames
Seeds == { filename_hash(n) : n \in PlaceholderNames }
Generators == [draws : [Seeds -> Streams], tieUp : [Streams -> BOOLEAN]]

\* what random yields after random.seed(a): the draws, and the direction of
\* the roundings they lead to.  The scorers seed before they draw: what
\* random yields from the state its import left is read by none of them,
\* and one stream stands for it.
Yield(a) ==
    LET draws == IF a \in Seeds THEN generator.draws[a] ELSE FaceStream
    IN  [draws |-> draws, tieUp |-> generator.tieUp[draws]]

\* a scorer that does not seed: random goes on from where it is
random_unseeded(state, a) == state

\* random.seed(a)
random_seed(state, a) == [seed |-> a, pos |-> 0]

\* the k-th random.random() from a state of the generator
random_random(state, k) ==
    Yield(state.seed).draws[((state.pos + k - 1) % StreamLen) + 1]

\* the state n calls of random.random() leave
random_after(state, n) == [state EXCEPT !.pos = (state.pos + n) % StreamLen]

Logged(fn, filename, bytes, result) ==
    [fn |-> fn, filename |-> filename, bytes |-> bytes, result |-> result]

\* analyze_image(image_bytes, filename): one draw when no face is detected,
\* eight otherwise
CallPlaceholderImage ==
    /\ Len(placeholder_log) < MaxCalls
    /\ \E filename \in PlaceholderNames, image_bytes \in FileBytes :
         LET seeded == random_seed(random_state, filename_hash(filename))
             draws  == [k \in 1..8 |-> random_random(seeded, k)]
             result == analyze_image(draws, Yield(seeded.seed).tieUp)
         IN  /\ random_state' = random_after(seeded, IF result.face_detected THEN 8 ELSE 1)
             /\ placeholder_log' = Append(placeholder_log,
                     Logged("analyze_image", filename, image_bytes, result))
    /\ UNCHANGED <<generator, analysisVars, authVars, sessionVars, storageVars>>

\* _analyze_audio_fallback(audio_bytes, filename): six draws for the
\* emotions; the draws of the simulated vocal features and frames follow
\* (two stand for them)
CallPlaceholderAudio ==
    /\ Len(placeholder_log) < MaxCalls
    /\ \E filename \in PlaceholderNames, audio_bytes \in FileBytes :
         LET seeded == random_seed(random_state, filename_hash(filename))
             draws  == [k \in 1..6 |-> random_random(seeded, k)]
             result == _analyze_audio_fallback(draws, Yield(seeded.seed).tieUp)
             rest   == <<random_random(seeded, 7), random_random(seeded, 8)>>
         IN  /\ random_state' = random_after(seeded, 8)
             /\ placeholder_log' = Append(placeholder_log,
                     Logged("_analyze_audio_fallback", filename, audio_bytes,
                            [result EXCEPT !.vocal_features = rest]))
    /\ UNCHANGED <<generator, analysisVars, authVars, sessionVars, storageVars>>

InitPlaceholders ==
    /\ sentiment_model = "None" /\ AudioModuleFresh
    /\ call = Idle /\ ret = NoRet
    /\ AuthIdle /\ SessionIdle /\ StorageIdle
    /\ generator \in Generators
    /\ random_state = [seed |-> 0, pos |-> 0]
    /\ placeholder_log = <<>>

NextPlaceholders ==
    \/ CallPlaceholderImage
    \/ CallPlaceholderAudio

SpecPlaceholders == InitPlaceholders /\ [][NextPlaceholders]_vars

\* C17: the placeholder scorers are deterministic in the filename only: any
\* two calls of analyze_image, and any two of _analyze_audio_fallback, whose
\* filenames have the same sum of character codes return identical results,
\* whatever the file bytes and whatever other calls happened in between.
C17_PlaceholdersDeterministic ==
    \A i \in DOMAIN placeholder_log : \A j \in DOMAIN placeholder_log :
        ( /\ placeholder_log[i].fn = placeholder_log[j].fn
          /\ filename_hash(placeholder_log[i].filename)
               = filename_hash(placeholder_log[j].filename) ) =>
            placeholder_log[i].result = placeholder_log[j].result

\* analyze_image of "ab", then of "ac" with another result, then of "ba"
\* with other bytes: the result of the first call again
C17_Witness ==
    /\ Len(placeholder_log) = 3
    /\ \A i \in 1..3 : placeholder_log[i].fn = "analyze_image"
    /\ placeholder_log[1].filename = <<97, 98>>
    /\ placeholder_log[2].filename = <<97, 99>>
    /\ placeholder_log[3].filename = <<98, 97>>
    /\ placeholder_log[1].bytes # placeholder_log[3].bytes
    /\ placeholder_log[2].result # placeholder_log[1].result
    /\ placeholder_log[3].result = placeholder_log[1].result

(***************************************************************************)
(* Claims about the analysers and the fusion.                              *)
(***************************************************************************)
AnalyserFns == {"analyze_text", "analyze_audio", "analyze_image"}
Buckets     == {"Low", "Moderate", "High"}
PlaceholderNote == "Placeholder analysis - install librosa for real features"

\* the score a returned result carries, in thousandths
ReturnedScore ==
    IF ret.fn = "aggregate_daily_scores" THEN ret.r.final_score ELSE ret.r.score

Returned ==
    /\ ret.fn \in AnalyserFns \cup {"aggregate_daily_scores"}
    /\ ret.fn \in {"analyze_audio", "aggregate_daily_scores"} => ~ret.r.raised

\* C2: in every result analyze_text, analyze_audio, analyze_image and
\* aggregate_daily_scores return, the bucket is Low exactly when the returned
\* score is below 0.33, Moderate exactly when it is in [0.33, 0.66), High
\* exactly when it is at least 0.66.
C2_BucketMatchesReturnedScore ==
    Returned => ret.r.bucket = BucketOf(ReturnedScore)

\* the part of C2 the code keeps: the analysers that round before they
\* threshold
C2_RoundedBeforeThreshold ==
    (Returned /\ ret.fn # "analyze_text") => ret.r.bucket = BucketOf(ReturnedScore)

\* the modalities of the call that have at least one analysis
Analyses(m) ==
    CASE m = "text" -> call.texts [] m = "audio" -> call.audios [] OTHER -> call.images
Present == { m \in Modalities : Len(Analyses(m)) > 0 }

\* the sum of the scores of the analyses of a modality, an analysis without
\* a score counting 0.5 (thousandths)
SumOfScores(m) ==
    LET a == Analyses(m)
        v(i) == IF a[i].score = NoScore THEN 500 ELSE a[i].score
    IN  IF Len(a) = 0 THEN 0
        ELSE IF Len(a) = 1 THEN v(1)
        ELSE IF Len(a) = 2 THEN v(1) + v(2)
        ELSE SumSeq([i \in 1..Len(a) |-> v(i)])

SpecWeight(m) == CASE m = "text" -> 50 [] m = "audio" -> 25 [] OTHER -> 25

\* with N(m) analyses of sum S(m) in modality m, the weighted mean of the
\* averages S(m) / N(m) under the renormalised weights is MeanNum / MeanDen
Others(m) == Present \ {m}
RECURSIVE ProdLen(_)
ProdLen(M) ==
    IF M = {} THEN 1
    ELSE LET m == CHOOSE x \in M : TRUE IN Len(Analyses(m)) * ProdLen(M \ {m})
RECURSIVE MeanNumOver(_)
MeanNumOver(M) ==
    IF M = {} THEN 0
    ELSE LET m == CHOOSE x \in M : TRUE
         IN  SpecWeight(m) * SumOfScores(m) * ProdLen(Others(m)) + MeanNumOver(M \ {m})
RECURSIVE WeightOver(_)
WeightOver(M) ==
    IF M = {} THEN 0
    ELSE LET m == CHOOSE x \in M : TRUE IN SpecWeight(m) + WeightOver(M \ {m})
MeanNum == MeanNumOver(Present)
MeanDen == WeightOver(Present) * ProdLen(Present)

\* C3: the final_score aggregate_daily_scores returns is, up to the rounding
\* to 3 decimals (at most 0.0005 away), the weighted mean of the averages of
\* the modalities that have an analysis, under the weights 0.5 / 0.25 / 0.25
\* renormalised over those modalities; with one modality it is that
\* modality's average.
C3_FinalScoreIsRenormalisedMean ==
    (ret.fn = "aggregate_daily_scores" /\ ~ret.r.raised /\ Present # {}) =>
        /\ ~ret.r.no_data
        /\ 2 * Abs(ret.r.final_score * MeanDen - MeanNum) <= MeanDen
        /\ \A m \in Modalities :
             Present = {m} =>
               2 * Abs(ret.r.final_score * Len(Analyses(m)) - SumOfScores(m))
                 <= Len(Analyses(m))

\* a fusion of audio and image only, whose averages differ: the weights
\* 0.25 and 0.25 are renormalised to 0.5 and 0.5
C3_Witness ==
    /\ ret.fn = "aggregate_daily_scores" /\ ~ret.r.raised
    /\ Present = {"audio", "image"}
    /\ SumOfScores("audio") * Len(call.images) # SumOfScores("image") * Len(call.audios)
    /\ ret.r.final_score > 300

\* the scores of the analyses handed to the fusion all lie in [0, 1] (an
\* analysis without a score counts as 0.5)
EntryScoresInUnitInterval ==
    \A m \in Modalities : \A i \in 1..Len(Analyses(m)) :
        Analyses(m)[i].score \in {NoScore} \cup 0..1000

FusionFns == {"aggregate_daily_scores", "aggregate_daily_scores_weights"}

\* C13: every score analyze_text, analyze_audio and analyze_image return
\* lies in [0, 1], and the final_score aggregate_daily_scores returns lies in
\* [0, 1] whenever the score of every entry does, for any non-negative
\* weights that are not all zero on the present modalities.
C13_ScoresInUnitInterval ==
    /\ (ret.fn \in AnalyserFns /\ (ret.fn = "analyze_audio" => ~ret.r.raised)) =>
           ret.r.score \in 0..1000
    /\ (ret.fn \in FusionFns /\ ~ret.r.raised /\ EntryScoresInUnitInterval) =>
           ret.r.final_score \in 0..1000

\* a fusion of a text analysis of score 0.9 and an audio analysis of score
\* 0.105 under the weights 3 / 1 / 0: (3 * 0.9 + 0.105) / 4
C13_Witness ==
    /\ ret.fn = "aggregate_daily_scores_weights" /\ ~ret.r.raised
    /\ call.weights = [text |-> 3, audio |-> 1, image |-> 0]
    /\ Present = Modalities
    /\ ret.r.final_score = 701

\* the keyword scorer computed 1.1 for six negative words in ten and
\* returned 1.0
KeywordScoreCapped ==
    /\ ret.fn = "analyze_text" /\ call.text = [neg |-> 6, pos |-> 0, words |-> 10]
    /\ sentiment_model = "fallback"
    /\ ret.r.score = 1000

\* C18: whenever aggregate_daily_scores computes a final_score above 0.75,
\* the suggestions it returns include the crisis-resource suggestion, for
\* every combination of text themes.
C18_CrisisResourceSuggested ==
    (ret.fn \in FusionFns /\ ~ret.r.raised /\ ~ret.r.no_data
       /\ ret.r.final_score > 750) =>
        CrisisSuggestion \in SeqRange(ret.suggestions)

\* what the code does instead: above 0.75 the five suggestions kept are
\* never the crisis resources
C18_CrisisResourceCutOff ==
    (ret.fn \in FusionFns /\ ~ret.r.raised /\ ~ret.r.no_data
       /\ ret.r.final_score > 750) =>
        /\ Len(ret.suggestions) = 5
        /\ CrisisSuggestion \notin SeqRange(ret.suggestions)

\* C10: analyze_audio never raises: it returns a score, a bucket and a
\* dominant emotion, and the placeholder result whenever a library is
\* missing, the webm conversion fails, the model is absent or "fallback",
\* or decoding or inference raises.
C10_AudioAlwaysReturns ==
    ret.fn = "analyze_audio" =>
        /\ ~ret.r.raised
        /\ ret.r.score \in 0..1000
        /\ ret.r.bucket \in Buckets
        /\ ret.r.dominant_emotion \in SeqRange(EMOTIONS) \cup SeqRange(AudioLabels)
        /\ ( \/ ~LIBROSA_AVAILABLE \/ ~TRANSFORMERS_AVAILABLE
             \/ ret.conv_failed
             \/ audio_model # "loaded"
             \/ ret.inference_raised ) => ret.r.note = PlaceholderNote

\* inference raised on a loaded model, and the placeholder came back
C10_Witness ==
    /\ ret.fn = "analyze_audio"
    /\ audio_model = "loaded" /\ ret.inference_raised
    /\ ret.r.note = PlaceholderNote

\* what one step does to a model cache whose call returns in that step
TextCallReturns  == ret = NoRet /\ ret'.fn = "analyze_text"
AudioCallReturns == ret = NoRet /\ ret'.fn = "analyze_audio"

StickyText ==
    /\ sentiment_model = "fallback" => sentiment_model' = "fallback"
    /\ sentiment_model = "loaded"   => sentiment_model' = "loaded"
    /\ TextCallReturns =>
         /\ sentiment_model # "None" => ~ret'.load_attempted
         /\ ret'.load_raised => sentiment_model' = "fallback"
         /\ sentiment_model' = "fallback" => ret'.r.sentiment \in KeywordSentiments
         /\ ret'.inference_raised =>
              /\ ret'.r.sentiment \in KeywordSentiments
              /\ sentiment_model' = "loaded"
         /\ (sentiment_model' = "loaded" /\ ~ret'.inference_raised) =>
              ret'.r.sentiment \in Labels

StickyAudio ==
    /\ audio_model = "fallback" => audio_model' = "fallback"
    /\ audio_model = "loaded"   => audio_model' = "loaded"
    /\ AudioCallReturns =>
         /\ audio_model # "None" => ~ret'.load_attempted
         /\ ret'.load_raised => audio_model' = "fallback"
         /\ audio_model' = "fallback" => ret'.r.note = PlaceholderNote
         /\ ret'.inference_raised =>
              /\ ret'.r.note = PlaceholderNote
              /\ audio_model' = "loaded"
         /\ ( /\ audio_model' = "loaded" /\ ~ret'.inference_raised
              /\ ~ret'.conv_failed
              /\ LIBROSA_AVAILABLE /\ TRANSFORMERS_AVAILABLE ) =>
              ret'.r.note = "Wav2Vec2 (pre-trained)"

\* C9: a model cache that is "fallback" stays "fallback", and a call that
\* finds or makes it "fallback" returns the keyword / placeholder result
\* without attempting the load; a cache that is loaded stays loaded and is
\* not loaded again; an inference error on a loaded model makes that call
\* return the keyword / placeholder result and leaves the model loaded, so
\* that a later call whose inference succeeds uses the model.
C9_FallbackIsSticky == [][StickyText /\ StickyAudio]_vars

\* a later analyze_text call that finds the cache "fallback" and returns the
\* keyword result without a load attempt, while the audio model stays
\* loaded
C9_Witness ==
    /\ ret.fn = "analyze_text" /\ sentiment_model = "fallback"
    /\ ~ret.load_attempted
    /\ ret.r.sentiment \in KeywordSentiments
    /\ audio_model = "loaded"

====
